---- MODULE Spec2Model ----
(***************************************************************************)
(* NamedRouteService of ngx-named-router: the name -> path registry that   *)
(* is built by an asynchronous depth-first walk over the router            *)
(* configuration (initialize / reset / refresh), as a state machine whose  *)
(* steps are the synchronous runs between two awaits of the walk.          *)
(*                                                                         *)
(* Strings of the program (paths, names) are sequences of one-character    *)
(* strings, so that joining, trimming and separator collapsing are         *)
(* computed.  An optional value (undefined in the program) is the empty    *)
(* sequence None, a present value x is the one-element sequence Some(x).   *)
(***************************************************************************)
EXTENDS Integers, Sequences, FiniteSets, TLC

VARIABLES
    config,                 \* router.config, read by performInitialization
    injectorRoutes,         \* what injector.get(ROUTES, null) returns
    routeMap,               \* NamedRouteService.routeMap, an insertion-ordered Map
    isInitialized,          \* NamedRouteService.isInitialized
    initializationPromise,  \* NamedRouteService.initializationPromise: 0, or the build it belongs to
    builds,                 \* every performInitialization run started so far, with its continuation
    calls,                  \* every initialize()/refresh() call made so far and the promise it got
    loaderLog,              \* every loadChildren() invocation, in order
    warnings,               \* what console.warn was called with
    resets,                 \* number of reset() executions so far (history)
    ops,                    \* number of caller operations so far (bounds the model)
    lookup,                 \* the most recent getRoutePath call and what it returned
    pathPattern,            \* interpolatePathParams: its pathPattern argument
    routeParams,            \* interpolatePathParams: its routeParams argument
    interpolated,           \* interpolatePathParams: how the call ended, once made
    link,                   \* one NamedRouterLinkDirective: its inputs and its href binding
    linkInterpolated,       \* the directive's interpolatePathParams: how the call ended, once made
    router,                 \* every call made to the host Router, in order
    completion              \* how the most recent NamedRouterService or directive operation ended

vars == <<config, injectorRoutes, routeMap, isInitialized, initializationPromise,
          builds, calls, loaderLog, warnings, resets, ops,
          lookup, pathPattern, routeParams, interpolated,
          link, linkInterpolated, router, completion>>

\* the state of the navigation side: the directive, the host router's log and
\* the last completion
hostVars == <<link, linkInterpolated, router, completion>>

\* what the registry's build operations leave alone
queryVars == <<lookup, pathPattern, routeParams, interpolated, hostVars>>

\* Bound of the model: the number of operations callers perform (initialize,
\* reset, refresh, getRoutePath and assignments to router.config together).
MaxOps == 3

\* Bound of the model: the number of '/'-separated pieces of a path pattern.
MaxPieces == 3

None == <<>>
Some(x) == <<x>>

-----------------------------------------------------------------------------
(* Strings *)

SLASH == "/"
IsSpace(c) == c = " "

RECURSIVE TrimStart(_)
TrimStart(s) ==
    IF s # <<>> /\ IsSpace(Head(s)) THEN TrimStart(Tail(s)) ELSE s

RECURSIVE TrimEnd(_)
TrimEnd(s) ==
    IF s # <<>> /\ IsSpace(s[Len(s)]) THEN TrimEnd(SubSeq(s, 1, Len(s) - 1)) ELSE s

\* String.prototype.trim
Trim(s) == TrimEnd(TrimStart(s))

\* s.replace(/\/+/g, '/')
RECURSIVE CollapseSlashes(_)
CollapseSlashes(s) ==
    IF Len(s) < 2 THEN s
    ELSE IF s[1] = SLASH /\ s[2] = SLASH THEN CollapseSlashes(Tail(s))
    ELSE <<s[1]>> \o CollapseSlashes(Tail(s))

joinPathsSwapped(parent, child) ==
    IF child = <<>> THEN parent
    ELSE IF parent = <<>> THEN child
    ELSE CollapseSlashes(child \o <<SLASH>> \o parent)

\* joinPaths(parent, child): an undefined child path is read like ''.
joinPaths(parent, child) ==
    IF child = <<>> THEN parent
    ELSE IF parent = <<>> THEN child
    ELSE CollapseSlashes(parent \o <<SLASH>> \o child)

-----------------------------------------------------------------------------
(* The insertion-ordered Map<string, string> *)

MapIndex(m, k) ==
    IF \E i \in 1..Len(m) : m[i].name = k
    THEN CHOOSE i \in 1..Len(m) : m[i].name = k
    ELSE 0

MapHas(m, k) == MapIndex(m, k) # 0

\* Map.get: None is undefined
MapGet(m, k) == IF MapHas(m, k) THEN Some(m[MapIndex(m, k)].path) ELSE None

MapSetPrepends(m, k, v) ==
    IF MapHas(m, k)
    THEN [m EXCEPT ![MapIndex(m, k)] = [name |-> k, path |-> v]]
    ELSE <<[name |-> k, path |-> v]>> \o m

\* Map.set: an existing key keeps its position and takes the new value
MapSet(m, k, v) ==
    IF MapHas(m, k)
    THEN [m EXCEPT ![MapIndex(m, k)] = [name |-> k, path |-> v]]
    ELSE Append(m, [name |-> k, path |-> v])

MapKeys(m) == [i \in 1..Len(m) |-> m[i].name]

-----------------------------------------------------------------------------
(* Errors *)

NamedRouteError(msg, path, cause) ==
    [kind |-> "NamedRouteError", message |-> msg, name |-> <<>>,
     existingPath |-> <<>>, newPath |-> <<>>, path |-> path, cause |-> cause]

DuplicateRouteNameError(routeName, existingPath, newPath) ==
    [kind |-> "DuplicateRouteNameError", message |-> "Duplicate route name",
     name |-> routeName, existingPath |-> existingPath, newPath |-> newPath,
     path |-> <<>>, cause |-> None]

\* what a rejecting loader rejects with: a plain Error
LoaderFailure ==
    [kind |-> "Error", message |-> "Failed to load", name |-> <<>>,
     existingPath |-> <<>>, newPath |-> <<>>, path |-> <<>>, cause |-> None]

\* error instanceof NamedRouteError
IsNamedRouteError(e) == e.kind \in {"NamedRouteError", "DuplicateRouteNameError"}

Ok == [ok |-> TRUE, error |-> None]
Err(e) == [ok |-> FALSE, error |-> Some(e)]

-----------------------------------------------------------------------------
(* Route configuration values *)

\* a Route: name, children and loadChildren are optional
Route(path, name, children, loadChildren) ==
    [path |-> path, name |-> name, children |-> children, loadChildren |-> loadChildren]

\* a value that may or may not be an array
ArrayValue(items) == [type |-> "array", items |-> items]
ObjectValue == [type |-> "object", items |-> <<>>]
UndefinedValue == [type |-> "undefined", items |-> <<>>]
StringValue(s) == [type |-> "string", items |-> s]

\* Array.isArray(v), the truthiness of v, and v.length > 0 (the length of
\* an object that is not an array is undefined, and undefined > 0 is false)
IsArray(v) == v.type = "array"
Truthy(v) == v.type \in {"array", "object"} \/ (v.type = "string" /\ v.items # <<>>)
HasLength(v) == v.type \in {"array", "string"} /\ Len(v.items) > 0

\* what a loader resolves to: an array, an object with optional default /
\* routes properties (values of any type) and possibly a key containing
\* 'mod', a function (a module class) with an optional static routes
\* property, or another value
Loaded(type, items, default, routes, modKey) ==
    [type |-> type, items |-> items, default |-> default, routes |-> routes,
     modKey |-> modKey]
LoadedArray(items) == Loaded("array", items, None, None, FALSE)
LoadedObject(default, routes, modKey) == Loaded("object", <<>>, default, routes, modKey)
LoadedFunction(routes) == Loaded("function", <<>>, None, routes, FALSE)
LoadedOther == Loaded("other", <<>>, None, None, FALSE)

\* a loadChildren function: id tells the loaders of a configuration apart
Loader(id, outcome, loaded) == [id |-> id, outcome |-> outcome, loaded |-> loaded]

-----------------------------------------------------------------------------
(* Lazy result normalisation *)

\* extractRoutesFromNgModule: the ROUTES token of the injector first (an
\* array of Routes arrays, flattened one level), then a static routes property
RECURSIVE Flat(_)
Flat(arrays) == IF arrays = <<>> THEN <<>> ELSE Head(arrays) \o Flat(Tail(arrays))

extractRoutesFromNgModule(moduleType, injected) ==
    IF injected # None
    THEN [routes |-> ArrayValue(Flat(injected[1])), warned |-> FALSE]
    ELSE IF moduleType.routes # None /\ Truthy(moduleType.routes[1])
    THEN [routes |-> moduleType.routes[1], warned |-> FALSE]
    ELSE [routes |-> ArrayValue(<<>>), warned |-> TRUE]

\* extractRoutesFromLazyModule: the value it returns, which the static
\* routes property of a module makes any truthy value, and whether it warned
extractRoutesFromLazyModule(loaded, injected) ==
    IF loaded.type = "array" THEN [routes |-> ArrayValue(loaded.items), warned |-> FALSE]
    ELSE IF loaded.type = "object" /\ loaded.default # None /\ IsArray(loaded.default[1])
    THEN [routes |-> loaded.default[1], warned |-> FALSE]
    ELSE IF loaded.type = "object" /\ loaded.routes # None /\ IsArray(loaded.routes[1])
    THEN [routes |-> loaded.routes[1], warned |-> FALSE]
    ELSE IF loaded.type = "object" /\ loaded.modKey
    THEN extractRoutesFromNgModule(loaded, injected)
    ELSE IF loaded.type = "function"
    THEN extractRoutesFromNgModule(loaded, injected)
    ELSE [routes |-> ArrayValue(<<>>), warned |-> TRUE]

-----------------------------------------------------------------------------
(* Registration *)

WarnBlankName == [kind |-> "blank-name", arg |-> <<>>]
WarnUnextractable == [kind |-> "unextractable", arg |-> <<>>]

registerRouteOverwrite(map, name, path) ==
    IF Trim(name) = <<>>
    THEN [map |-> map, error |-> None, warned |-> TRUE, stored |-> FALSE]
    ELSE [map |-> MapSet(map, name, path), error |-> None, warned |-> FALSE,
          stored |-> TRUE]

\* registerRoute(name, path): the map after it, the error it throws if any,
\* whether it warned and whether it stored the name
registerRoute(map, name, path) ==
    IF Trim(name) = <<>>
    THEN [map |-> map, error |-> None, warned |-> TRUE, stored |-> FALSE]
    ELSE IF MapGet(map, name) # None
    THEN [map |-> map,
          error |-> Some(DuplicateRouteNameError(name, MapGet(map, name)[1], path)),
          warned |-> FALSE, stored |-> FALSE]
    ELSE [map |-> MapSet(map, name, path), error |-> None, warned |-> FALSE,
          stored |-> TRUE]

-----------------------------------------------------------------------------
(* Queries.  A name argument is optional: None is undefined or null. *)

WarnInvalidName(name) == [kind |-> "invalid-name", arg |-> name]
WarnNotFound(name) == [kind |-> "not-found", arg |-> name]

getRoutePathWhenInitialized(map, initialized, name) ==
    IF name = None \/ name[1] = <<>>
    THEN [path |-> None, warned |-> {WarnInvalidName(name)}]
    ELSE [path |-> IF initialized THEN MapGet(map, name[1]) ELSE None,
          warned |-> IF ~MapHas(map, name[1]) /\ initialized
                     THEN {WarnNotFound(name)} ELSE {}]

\* getRoutePath(name) on a service whose fields are map and initialized:
\* what it returns and what it hands to console.warn
getRoutePath(map, initialized, name) ==
    IF name = None \/ name[1] = <<>>
    THEN [path |-> None, warned |-> {WarnInvalidName(name)}]
    ELSE [path |-> MapGet(map, name[1]),
          warned |-> IF ~MapHas(map, name[1]) /\ initialized
                     THEN {WarnNotFound(name)} ELSE {}]

\* getAllRouteNames()
getAllRouteNames(map) == MapKeys(map)

\* hasRoute(name)
hasRoute(map, name) == name # None /\ MapHas(map, name[1])

-----------------------------------------------------------------------------
(* Path interpolation (NamedRouterService.interpolatePathParams).  A        *)
(* pattern argument is optional: None is undefined.  A parameter bag is the *)
(* sequence of its own properties.                                          *)

\* the values a property of the bag can have
Undefined == [type |-> "undefined", text |-> <<>>, number |-> 0]
Null == [type |-> "null", text |-> <<>>, number |-> 0]
Str(s) == [type |-> "string", text |-> s, number |-> 0]
Num(n) == [type |-> "number", text |-> <<>>, number |-> n]

\* routeParams[paramName]: a name the bag does not have reads as undefined
ParamValue(params, paramName) ==
    IF \E i \in 1..Len(params) : params[i].key = paramName
    THEN params[CHOOSE i \in 1..Len(params) : params[i].key = paramName].value
    ELSE Undefined

Digit(d) == <<"0", "1", "2", "3", "4", "5", "6", "7", "8", "9">>[d + 1]

RECURSIVE Digits(_)
Digits(n) == IF n < 10 THEN <<Digit(n)>> ELSE Digits(n \div 10) \o <<Digit(n % 10)>>

\* String(value) of a string or of a natural number
String(v) == IF v.type = "number" THEN Digits(v.number) ELSE v.text

\* encodeURIComponent: the characters it leaves alone, and the escapes of
\* the other characters of the model
Unreserved ==
    {"a", "b", "c", "d", "e", "f", "g", "h", "i", "j", "k", "l", "m", "n", "o", "p", "q",
     "r", "s", "t", "u", "v", "w", "x", "y", "z",
     "0", "1", "2", "3", "4", "5", "6", "7", "8", "9",
     "-", "_", ".", "!", "~", "*", "'", "(", ")"}

Escape(c) ==
    CASE c = " " -> <<"%", "2", "0">>
      [] c = "%" -> <<"%", "2", "5">>
      [] c = "&" -> <<"%", "2", "6">>
      [] c = "/" -> <<"%", "2", "F">>
      [] c = ":" -> <<"%", "3", "A">>
      [] c = "?" -> <<"%", "3", "F">>

RECURSIVE encodeURIComponent(_)
encodeURIComponent(s) ==
    IF s = <<>> THEN <<>>
    ELSE (IF Head(s) \in Unreserved THEN <<Head(s)>> ELSE Escape(Head(s)))
             \o encodeURIComponent(Tail(s))

\* String.prototype.split(sep) for a one-character separator
RECURSIVE Split(_, _)
Split(s, sep) ==
    IF \A i \in 1..Len(s) : s[i] # sep THEN <<s>>
    ELSE LET k == CHOOSE i \in 1..Len(s) : s[i] = sep /\ \A j \in 1..(i - 1) : s[j] # sep
         IN  <<SubSeq(s, 1, k - 1)>> \o Split(SubSeq(s, k + 1, Len(s)), sep)

\* String.prototype.indexOf(c), counted from 1; 0 when c does not occur
IndexOf(s, c) ==
    IF \A i \in 1..Len(s) : s[i] # c THEN 0
    ELSE CHOOSE i \in 1..Len(s) : s[i] = c /\ \A j \in 1..(i - 1) : s[j] # c

\* Array.prototype.join(sep)
RECURSIVE Join(_, _)
Join(parts, sep) ==
    IF parts = <<>> THEN <<>>
    ELSE IF Len(parts) = 1 THEN parts[1]
    ELSE parts[1] \o sep \o Join(Tail(parts), sep)

\* the Error thrown for missing parameters: the fixed text of its message,
\* the route name the message template names (this one names none), and the
\* joined parameter names
MissingParametersError(context, missingParams) ==
    [kind |-> "Error", text |-> "Missing required route parameters", context |-> context,
     names |-> Join(missingParams, <<",", " ">>)]

Returned(segments) == [ok |-> TRUE, segments |-> segments, error |-> None]
Thrown(e) == [ok |-> FALSE, segments |-> <<>>, error |-> Some(e)]

interpolateSegmentKeepsOptional(segment, params, acc) ==
    IF segment[1] = ":"
    THEN LET isOptional == segment[Len(segment)] = "?"
             afterColon == SubSeq(segment, 2, Len(segment))
             unmarked == IF isOptional THEN SubSeq(afterColon, 1, Len(afterColon) - 1)
                         ELSE afterColon
             parenIndex == IndexOf(unmarked, "(")
             paramName == IF parenIndex # 0 THEN SubSeq(unmarked, 1, parenIndex - 1)
                          ELSE unmarked
             paramValue == ParamValue(params, paramName)
         IN  IF paramValue.type \notin {"undefined", "null"}
             THEN [acc EXCEPT !.result = Append(@, encodeURIComponent(String(paramValue)))]
             ELSE IF ~isOptional
             THEN [acc EXCEPT !.missingParams = Append(@, paramName)]
             ELSE [acc EXCEPT !.result = Append(@, <<>>)]
    ELSE [acc EXCEPT !.result = Append(@, segment)]

\* one iteration of the loop over the segments, on the arrays result and
\* missingParams built so far
interpolateSegment(segment, params, acc) ==
    IF segment[1] = ":"
    THEN LET isOptional == segment[Len(segment)] = "?"
             afterColon == SubSeq(segment, 2, Len(segment))
             unmarked == IF isOptional THEN SubSeq(afterColon, 1, Len(afterColon) - 1)
                         ELSE afterColon
             parenIndex == IndexOf(unmarked, "(")
             paramName == IF parenIndex # 0 THEN SubSeq(unmarked, 1, parenIndex - 1)
                          ELSE unmarked
             paramValue == ParamValue(params, paramName)
         IN  IF paramValue.type \notin {"undefined", "null"}
             THEN [acc EXCEPT !.result = Append(@, encodeURIComponent(String(paramValue)))]
             ELSE IF ~isOptional
             THEN [acc EXCEPT !.missingParams = Append(@, paramName)]
             ELSE acc
    ELSE [acc EXCEPT !.result = Append(@, segment)]

RECURSIVE interpolateSegments(_, _, _)
interpolateSegments(segments, params, acc) ==
    IF segments = <<>> THEN acc
    ELSE interpolateSegments(Tail(segments), params,
                             interpolateSegment(Head(segments), params, acc))

interpolateRootWhenEmpty(pattern, params) ==
    IF pattern = None \/ pattern[1] = <<>> THEN Returned(<<<<SLASH>>>>)
    ELSE LET segments == SelectSeq(Split(pattern[1], SLASH), LAMBDA x : Len(x) > 0)
             acc == interpolateSegments(segments, params,
                                        [result |-> <<>>, missingParams |-> <<>>])
         IN  IF Len(acc.missingParams) > 0
             THEN Thrown(MissingParametersError(None, acc.missingParams))
             ELSE IF acc.result = <<>> THEN Returned(<<<<SLASH>>>>)
             ELSE Returned(acc.result)

\* interpolatePathParams(pathPattern, routeParams): the segments it returns
\* or the error it throws
interpolatePathParams(pattern, params) ==
    IF pattern = None \/ pattern[1] = <<>> THEN Returned(<<<<SLASH>>>>)
    ELSE LET segments == SelectSeq(Split(pattern[1], SLASH), LAMBDA x : Len(x) > 0)
             acc == interpolateSegments(segments, params,
                                        [result |-> <<>>, missingParams |-> <<>>])
         IN  IF Len(acc.missingParams) > 0
             THEN Thrown(MissingParametersError(None, acc.missingParams))
             ELSE Returned(acc.result)

\* The directive: its inputs (name and target are optional, the bags are
\* objects), whether ngOnInit has run, and its href binding (None is null)
Link(name, params, query, fragment, target) ==
    [name |-> name, routeParams |-> params, queryParams |-> query, fragment |-> fragment,
     target |-> target, href |-> None, inited |-> FALSE]

\* the directive as constructed: the defaults of its fields
NewLink == Link(Some(<<>>), <<>>, <<>>, None, None)

linkInterpolateSegmentKeepsConstraint(this, segment, acc) ==
    IF segment[1] = ":"
    THEN LET isOptional == segment[Len(segment)] = "?"
             afterColon == SubSeq(segment, 2, Len(segment))
             paramName == IF isOptional THEN SubSeq(afterColon, 1, Len(afterColon) - 1)
                          ELSE afterColon
             paramValue == ParamValue(this.routeParams, paramName)
         IN  IF paramValue.type \notin {"undefined", "null"}
             THEN [acc EXCEPT !.result = Append(@, encodeURIComponent(String(paramValue)))]
             ELSE IF ~isOptional
             THEN [acc EXCEPT !.missingParams = Append(@, paramName)]
             ELSE acc
    ELSE [acc EXCEPT !.result = Append(@, segment)]

\* one iteration of the loop of the directive's interpolatePathParams
linkInterpolateSegment(this, segment, acc) ==
    IF segment[1] = ":"
    THEN LET isOptional == segment[Len(segment)] = "?"
             afterColon == SubSeq(segment, 2, Len(segment))
             unmarked == IF isOptional THEN SubSeq(afterColon, 1, Len(afterColon) - 1)
                         ELSE afterColon
             parenIndex == IndexOf(unmarked, "(")
             paramName == IF parenIndex # 0 THEN SubSeq(unmarked, 1, parenIndex - 1)
                          ELSE unmarked
             paramValue == ParamValue(this.routeParams, paramName)
         IN  IF paramValue.type \notin {"undefined", "null"}
             THEN [acc EXCEPT !.result = Append(@, encodeURIComponent(String(paramValue)))]
             ELSE IF ~isOptional
             THEN [acc EXCEPT !.missingParams = Append(@, paramName)]
             ELSE acc
    ELSE [acc EXCEPT !.result = Append(@, segment)]

RECURSIVE linkInterpolateSegments(_, _, _)
linkInterpolateSegments(this, segments, acc) ==
    IF segments = <<>> THEN acc
    ELSE linkInterpolateSegments(this, Tail(segments),
                                 linkInterpolateSegment(this, Head(segments), acc))

\* the directive's interpolatePathParams(pathPattern), which reads the bag
\* and the route name from the directive
linkInterpolatePathParams(this, pattern) ==
    IF pattern = None \/ pattern[1] = <<>> THEN Returned(<<<<SLASH>>>>)
    ELSE LET segments == SelectSeq(Split(pattern[1], SLASH), LAMBDA x : Len(x) > 0)
             acc == linkInterpolateSegments(this, segments,
                                            [result |-> <<>>, missingParams |-> <<>>])
         IN  IF Len(acc.missingParams) > 0
             THEN Thrown(MissingParametersError(this.name, acc.missingParams))
             ELSE Returned(acc.result)

-----------------------------------------------------------------------------
(* The walk.  A build is a stack of suspended async frames; the top frame   *)
(* is the one whose awaited promise settles next.  awaited is Some(result)  *)
(* when that promise has settled and the frame resumes at the next          *)
(* microtask, and None while the top frame waits for its loader.  A machine *)
(* m carries the stack and what the synchronous run has done to the         *)
(* service: map, warnings, loader invocations, names this build stored.     *)

Frame(fn, routes, idx, path, route, pc) ==
    [fn |-> fn, routes |-> routes, idx |-> idx, path |-> path, route |-> route, pc |-> pc]

PerformFrame == Frame("performInitialization", <<>>, 0, <<>>, None, "build")
BuildFrame(routes, idx, parentPath) ==
    Frame("buildRouteMap", routes, idx, parentPath, None, "route")
ProcessFrame(route, fullPath, pc) ==
    Frame("processRoute", <<>>, 0, fullPath, Some(route), pc)
LazyFrame(route, fullPath, pc) ==
    Frame("processLazyRoute", <<>>, 0, fullPath, Some(route), pc)

Push(m, f) == [m EXCEPT !.stack = Append(@, f)]
Return(m, r) == [m EXCEPT !.awaited = Some(r)]

NotArrayError == NamedRouteError("Invalid routes configuration: expected an array", <<>>, None)

LazyErrorWithoutPath(fullPath, e) == NamedRouteError("Failed to load lazy module", <<>>, Some(e))

\* the error processLazyRoute throws: its message is made of the text, the
\* full path of the node and the message of the error it caught
LazyError(fullPath, e) == NamedRouteError("Failed to load lazy module", fullPath, Some(e))

\* the loader log: an invocation is pending until the loader settles, then
\* failed, or loaded while its subtree is walked, and done afterwards
Invocation(tid, id) == [build |-> tid, id |-> id, state |-> "pending"]
Mark(m, route, state) ==
    [m EXCEPT !.log = [i \in 1..Len(@) |->
        IF @[i].build = m.tid /\ @[i].id = route.loadChildren[1].id
        THEN [@[i] EXCEPT !.state = state] ELSE @[i]]]

processLazyRouteDetached(m, route, fullPath) ==
    Return([m EXCEPT !.log = Append(@, Invocation(m.tid, route.loadChildren[1].id))], Ok)

\* processLazyRoute up to its first await: the loader is invoked
processLazyRoute(m, route, fullPath) ==
    [Push(m, LazyFrame(route, fullPath, "load")) EXCEPT
        !.awaited = None,
        !.log = Append(@, Invocation(m.tid, route.loadChildren[1].id))]

\* processRoute from step 4: lazy loading
processRouteLazyStep(m, route, fullPath) ==
    IF route.loadChildren # None
    THEN processLazyRoute(Push(m, ProcessFrame(route, fullPath, "lazy")), route, fullPath)
    ELSE Return(m, Ok)

RECURSIVE buildRouteMapFrom(_, _, _, _)
RECURSIVE processRoute(_, _, _)

buildRouteMapUnchecked(m, routes, parentPath) ==
    buildRouteMapFrom(m, routes.items, 1, parentPath)

\* buildRouteMap(routes, parentPath) up to its first await
buildRouteMap(m, routes, parentPath) ==
    IF routes.type # "array" THEN Return(m, Err(NotArrayError))
    ELSE buildRouteMapFrom(m, routes.items, 1, parentPath)

\* the loop of buildRouteMap, entering iteration idx
buildRouteMapFrom(m, items, idx, parentPath) ==
    IF idx > Len(items) THEN Return(m, Ok)
    ELSE processRoute(Push(m, BuildFrame(items, idx, parentPath)), items[idx], parentPath)

\* processRoute(route, parentPath) up to its first await
processRoute(m, route, parentPath) ==
    LET fullPath == joinPaths(parentPath, route.path)
        named == route.name # None /\ route.name[1] # <<>>
        reg == IF named THEN registerRoute(m.map, route.name[1], fullPath)
               ELSE [map |-> m.map, error |-> None, warned |-> FALSE, stored |-> FALSE]
        m1 == [m EXCEPT
                !.map = reg.map,
                !.warn = IF reg.warned THEN @ \cup {WarnBlankName} ELSE @,
                !.registered = IF reg.stored THEN @ \cup {route.name[1]} ELSE @]
    IN  IF reg.error # None THEN Return(m1, Err(reg.error[1]))
        ELSE IF route.children # None
        THEN buildRouteMap(Push(m1, ProcessFrame(route, fullPath, "children")),
                           ArrayValue(route.children[1]), fullPath)
        ELSE processRouteLazyStep(m1, route, fullPath)

Top(m) == m.stack[Len(m.stack)]
Pop(m) == [m EXCEPT !.stack = SubSeq(@, 1, Len(@) - 1)]

ResumeFrameContinues(m) ==
    LET f == Top(m)
        r == m.awaited[1]
        m0 == Pop(m)
    IN  CASE f.fn = "buildRouteMap" -> buildRouteMapFrom(m0, f.routes, f.idx + 1, f.path)
          [] f.fn = "processRoute" ->
               IF ~r.ok THEN Return(m0, r)
               ELSE IF f.pc = "children" THEN processRouteLazyStep(m0, f.route[1], f.path)
               ELSE Return(m0, Ok)
          [] f.fn = "processLazyRoute" ->
               IF r.ok THEN Return(Mark(m0, f.route[1], "done"), Ok)
               ELSE Return(Mark(m0, f.route[1], "done"), Err(LazyError(f.path, r.error[1])))

\* the top frame resumes with the settled result of what it awaited
\* (performInitialization's own resumption is part of the action Resume)
ResumeFrame(m) ==
    LET f == Top(m)
        r == m.awaited[1]
        m0 == Pop(m)
    IN  CASE f.fn = "buildRouteMap" ->
               IF r.ok THEN buildRouteMapFrom(m0, f.routes, f.idx + 1, f.path)
               ELSE IF IsNamedRouteError(r.error[1]) THEN Return(m0, r)
               ELSE Return(m0, Err(NamedRouteError("Failed to process route", f.path,
                                                   r.error)))
          [] f.fn = "processRoute" ->
               IF ~r.ok THEN Return(m0, r)
               ELSE IF f.pc = "children" THEN processRouteLazyStep(m0, f.route[1], f.path)
               ELSE Return(m0, Ok)
          [] f.fn = "processLazyRoute" ->
               IF r.ok THEN Return(Mark(m0, f.route[1], "done"), Ok)
               ELSE Return(Mark(m0, f.route[1], "done"), Err(LazyError(f.path, r.error[1])))

\* the loader of the top frame settles and processLazyRoute resumes
ResumeLoader(m, injected) ==
    LET f == Top(m)
        loader == f.route[1].loadChildren[1]
        m0 == Pop(m)
        ex == extractRoutesFromLazyModule(loader.loaded, injected)
        m1 == [m0 EXCEPT !.warn = IF ex.warned THEN @ \cup {WarnUnextractable} ELSE @]
    IN  IF loader.outcome = "reject"
        THEN Return(Mark(m0, f.route[1], "failed"), Err(LazyError(f.path, LoaderFailure)))
        ELSE IF HasLength(ex.routes)
        THEN buildRouteMap(Push(Mark(m1, f.route[1], "loaded"),
                                LazyFrame(f.route[1], f.path, "build")),
                           ex.routes, f.path)
        ELSE Return(Mark(m1, f.route[1], "done"), Ok)

-----------------------------------------------------------------------------
(* The configurations the service is run on *)

NameA == <<"a">>
NameB == <<"b">>
NameC == <<"c">>
PathU == <<"u">>
PathV == <<"v">>
PathW == <<"w">>

Leaf(path, name) == Route(path, Some(name), None, None)
Parent(path, name, children) == Route(path, Some(name), Some(children), None)
Lazy(path, name, loader) == Route(path, Some(name), None, Some(loader))

\* router.config values of the lifecycle specification: missing, not an
\* array, flat, nested, lazily loaded, with a rejecting loader, with a
\* duplicate name at root level and inside a lazily loaded subtree, and
\* nested under a path that repeats the separator
Configs ==
    { UndefinedValue,
      ObjectValue,
      ArrayValue(<<Leaf(PathU, NameA), Leaf(PathV, NameB)>>),
      ArrayValue(<<Leaf(PathW, NameA)>>),
      ArrayValue(<<Parent(PathU, NameA, <<Leaf(PathV, NameB)>>)>>),
      ArrayValue(<<Lazy(PathU, NameA, Loader(1, "resolve", LoadedArray(<<Leaf(PathV, NameB)>>))),
                   Leaf(PathW, NameC)>>),
      ArrayValue(<<Lazy(PathU, NameA, Loader(1, "reject", LoadedOther))>>),
      ArrayValue(<<Leaf(PathU, NameA), Leaf(PathV, NameA)>>),
      ArrayValue(<<Leaf(PathU, NameA),
                   Lazy(PathV, NameB, Loader(1, "resolve", LoadedArray(<<Leaf(PathW, NameA)>>)))>>),
      ArrayValue(<<Parent(<<"w", SLASH, SLASH>>, NameA, <<Leaf(PathV, NameB)>>)>>) }


\* The route trees of the build specification: every assignment of a path
\* and an optional name to the three nodes of each shape, a lazily loaded
\* subtree being delivered in each of the ways a loader can settle
FamilyPaths == {<<>>, PathU, <<"v", SLASH>>}
FamilyNames == {None, Some(<<>>), Some(<<" ">>), Some(NameA), Some(NameB)}
FamilyNodes == [path : FamilyPaths, name : FamilyNames]

\* how a loader settles: with an array, with an object that has a default
\* or a routes array, with a module class that has a static routes array or
\* none, with an object that has a key containing 'mod' and a routes
\* property that is a string or an object, with another value, or rejecting
Deliveries == {"array", "default", "routes", "static-routes", "module", "module-string",
               "module-object", "other", "reject"}
Deliver(id, how, routes) ==
    CASE how = "array" -> Loader(id, "resolve", LoadedArray(routes))
      [] how = "default" -> Loader(id, "resolve", LoadedObject(Some(ArrayValue(routes)), None, FALSE))
      [] how = "routes" -> Loader(id, "resolve", LoadedObject(None, Some(ArrayValue(routes)), FALSE))
      [] how = "static-routes" ->
             Loader(id, "resolve", LoadedFunction(Some(ArrayValue(routes))))
      [] how = "module" -> Loader(id, "resolve", LoadedFunction(None))
      [] how = "module-string" ->
             Loader(id, "resolve", LoadedObject(None, Some(StringValue(<<"x">>)), TRUE))
      [] how = "module-object" ->
             Loader(id, "resolve", LoadedObject(None, Some(ObjectValue), TRUE))
      [] how = "other" -> Loader(id, "resolve", LoadedOther)
      [] how = "reject" -> Loader(id, "reject", LoadedOther)

Node(n, children, loadChildren) == Route(n.path, n.name, children, loadChildren)

Shapes == {"flat", "chain", "nested", "lazy-first", "children-and-lazy", "lazy-last",
           "lazy-in-lazy", "lazy-inner", "lazy-twice"}

\* the tree of a shape over three nodes; how is the delivery of its loader
TreeOf(shape, how, n1, n2, n3) ==
    CASE shape = "flat" ->
           ArrayValue(<<Node(n1, None, None), Node(n2, None, None), Node(n3, None, None)>>)
      [] shape = "chain" ->
           ArrayValue(<<Node(n1, Some(<<Node(n2, Some(<<Node(n3, None, None)>>), None)>>), None)>>)
      [] shape = "nested" ->
           ArrayValue(<<Node(n1, Some(<<Node(n2, None, None)>>), None), Node(n3, None, None)>>)
      [] shape = "lazy-first" ->
           ArrayValue(<<Node(n1, None, Some(Deliver(1, how, <<Node(n2, None, None)>>))),
                        Node(n3, None, None)>>)
      [] shape = "children-and-lazy" ->
           ArrayValue(<<Node(n1, Some(<<Node(n2, None, None)>>),
                             Some(Deliver(1, how, <<Node(n3, None, None)>>)))>>)
      [] shape = "lazy-last" ->
           ArrayValue(<<Node(n1, None, None),
                        Node(n2, None, Some(Deliver(1, how, <<Node(n3, None, None)>>)))>>)
      [] shape = "lazy-in-lazy" ->
           ArrayValue(<<Node(n1, None, Some(Deliver(1, how,
                <<Node(n2, None, Some(Deliver(2, "array", <<Node(n3, None, None)>>)))>>)))>>)
      [] shape = "lazy-inner" ->
           ArrayValue(<<Node(n1, None, Some(Deliver(1, "array",
                <<Node(n2, None, Some(Deliver(2, how, <<Node(n3, None, None)>>)))>>)))>>)
      [] shape = "lazy-twice" ->
           ArrayValue(<<Node(n1, None, Some(Deliver(1, how, <<Node(n2, None, None)>>))),
                        Node(n3, None, Some(Deliver(2, "array", <<>>)))>>)

-----------------------------------------------------------------------------
(* The service *)

Machine(tid, map) ==
    [tid |-> tid, stack |-> <<PerformFrame>>, awaited |-> None, map |-> map,
     warn |-> warnings, log |-> loaderLog, registered |-> {}]

MachineOf(tid) ==
    [tid |-> tid, stack |-> builds[tid].stack, awaited |-> builds[tid].awaited,
     map |-> routeMap, warn |-> warnings, log |-> loaderLog,
     registered |-> builds[tid].registered]

ConfigUnavailable == NamedRouteError("Router configuration is not available", <<>>, None)

\* a performInitialization run: its continuation, its promise's state, and
\* for the properties the reset count and the configuration it started with
Build(stack, awaited, status, error, registered) ==
    [stack |-> stack, awaited |-> awaited, status |-> status, error |-> error,
     registered |-> registered, epoch |-> resets', root |-> config]

\* performInitialization() up to its first await, on a service whose map is
\* map; a falsy router.config throws before any await, and the catch block
\* runs inside the call
performInitialization(tid, map) ==
    IF config.type = "undefined"
    THEN [build |-> Build(<<>>, None, "rejected", Some(ConfigUnavailable), {}),
          m |-> Machine(tid, map)]
    ELSE LET m == buildRouteMap(Machine(tid, map), config, <<>>)
         IN  [build |-> Build(m.stack, m.awaited, "pending", None, m.registered),
              m |-> m]

\* an initialize()/refresh() call: the promise it was handed (0: it returned
\* at once), and for the properties the reset count at the call and the
\* builds that were unsettled when it was made
Call(op, promise) ==
    [op |-> op, promise |-> promise, epoch |-> resets',
     pending |-> {t \in 1..Len(builds) : builds[t].status = "pending"}]

\* initialize() past the isInitialized check: the caller joins the build in
\* flight or starts one.  The assignment to initializationPromise follows the
\* synchronous part of performInitialization, its catch block included, so a
\* build that failed before its first await stays referenced
joinOrStartBuild(op, map, initialized, promise) ==
    IF promise # 0
    THEN /\ calls' = Append(calls, Call(op, promise))
         /\ routeMap' = map
         /\ isInitialized' = initialized
         /\ initializationPromise' = promise
         /\ UNCHANGED <<builds, loaderLog, warnings>>
    ELSE LET tid == Len(builds) + 1
             p == performInitialization(tid, map)
         IN  /\ calls' = Append(calls, Call(op, tid))
             /\ builds' = Append(builds, p.build)
             /\ routeMap' = p.m.map
             /\ warnings' = p.m.warn
             /\ loaderLog' = p.m.log
             /\ isInitialized' = initialized
             /\ initializationPromise' = tid

initializeWithoutFlagCheck(op, map, initialized, promise) ==
    joinOrStartBuild(op, map, initialized, promise)

\* initialize() on a service whose fields are map, initialized and promise
initialize(op, map, initialized, promise) ==
    IF initialized
    THEN /\ calls' = Append(calls, Call(op, 0))
         /\ routeMap' = map
         /\ isInitialized' = initialized
         /\ initializationPromise' = promise
         /\ UNCHANGED <<builds, loaderLog, warnings>>
    ELSE joinOrStartBuild(op, map, initialized, promise)

\* no getRoutePath and no interpolatePathParams call has been made
NoQueries ==
    /\ lookup = None
    /\ pathPattern = None
    /\ routeParams = <<>>
    /\ interpolated = None
    /\ link = NewLink
    /\ linkInterpolated = None
    /\ router = <<>>
    /\ completion = None

Init ==
    /\ config \in Configs
    /\ injectorRoutes = None
    /\ routeMap = <<>>
    /\ isInitialized = FALSE
    /\ initializationPromise = 0
    /\ builds = <<>>
    /\ calls = <<>>
    /\ loaderLog = <<>>
    /\ warnings = {}
    /\ resets = 0
    /\ ops = 0
    /\ NoQueries

\* a caller calls initialize()
Initialize ==
    /\ ops < MaxOps
    /\ ops' = ops + 1
    /\ UNCHANGED <<config, injectorRoutes, resets>>
    /\ UNCHANGED queryVars
    /\ initialize("initialize", routeMap, isInitialized, initializationPromise)

ResetKeepsPromise ==
    /\ ops < MaxOps
    /\ ops' = ops + 1
    /\ resets' = resets + 1
    /\ routeMap' = <<>>
    /\ isInitialized' = FALSE
    /\ UNCHANGED <<config, injectorRoutes, builds, calls, loaderLog, warnings,
                   initializationPromise>>
    /\ UNCHANGED queryVars

\* a caller calls reset()
Reset ==
    /\ ops < MaxOps
    /\ ops' = ops + 1
    /\ resets' = resets + 1
    /\ routeMap' = <<>>
    /\ isInitialized' = FALSE
    /\ initializationPromise' = 0
    /\ UNCHANGED <<config, injectorRoutes, builds, calls, loaderLog, warnings>>
    /\ UNCHANGED queryVars

\* a caller calls refresh(): reset(), then initialize() up to its first await
Refresh ==
    /\ ops < MaxOps
    /\ ops' = ops + 1
    /\ resets' = resets + 1
    /\ UNCHANGED <<config, injectorRoutes>>
    /\ UNCHANGED queryVars
    /\ initialize("refresh", <<>>, FALSE, 0)

\* the application assigns a new router.config
SetConfig ==
    /\ ops < MaxOps
    /\ ops' = ops + 1
    /\ \E c \in Configs : c # config /\ config' = c
    /\ UNCHANGED <<injectorRoutes, routeMap, isInitialized, initializationPromise,
                   builds, calls, loaderLog, warnings, resets>>
    /\ UNCHANGED queryVars

Settle(tid, m) ==
    /\ builds' = [builds EXCEPT ![tid].stack = m.stack, ![tid].awaited = m.awaited,
                                ![tid].registered = m.registered]
    /\ routeMap' = m.map
    /\ warnings' = m.warn
    /\ loaderLog' = m.log

\* the microtask that resumes the top frame of build tid
Resume(tid) ==
    /\ builds[tid].status = "pending"
    /\ builds[tid].awaited # None
    /\ LET b == builds[tid]
           r == b.awaited[1]
       IN  IF b.stack[Len(b.stack)].fn = "performInitialization"
           THEN IF r.ok
                THEN /\ isInitialized' = TRUE
                     /\ builds' = [builds EXCEPT ![tid].stack = <<>>, ![tid].awaited = None,
                                                 ![tid].status = "fulfilled"]
                     /\ UNCHANGED <<initializationPromise, routeMap, warnings, loaderLog>>
                ELSE /\ initializationPromise' = 0
                     /\ builds' = [builds EXCEPT
                            ![tid].stack = <<>>, ![tid].awaited = None,
                            ![tid].status = "rejected",
                            ![tid].error =
                                IF IsNamedRouteError(r.error[1]) THEN r.error
                                ELSE Some(NamedRouteError("Failed to initialize named routes",
                                                          <<>>, r.error))]
                     /\ UNCHANGED <<isInitialized, routeMap, warnings, loaderLog>>
           ELSE /\ Settle(tid, ResumeFrame(MachineOf(tid)))
                /\ UNCHANGED <<isInitialized, initializationPromise>>
    /\ UNCHANGED <<config, injectorRoutes, calls, resets, ops>>
    /\ UNCHANGED queryVars

\* the loader that build tid waits for settles, and processLazyRoute resumes
LoaderSettles(tid) ==
    /\ builds[tid].status = "pending"
    /\ builds[tid].awaited = None
    /\ Settle(tid, ResumeLoader(MachineOf(tid), injectorRoutes))
    /\ UNCHANGED <<config, injectorRoutes, isInitialized, initializationPromise,
                   calls, resets, ops>>
    /\ UNCHANGED queryVars

Next ==
    \/ Initialize
    \/ Reset
    \/ Refresh
    \/ SetConfig
    \/ \E tid \in 1..Len(builds) : Resume(tid)
    \/ \E tid \in 1..Len(builds) : LoaderSettles(tid)

Spec == Init /\ [][Next]_vars

\* the names getRoutePath is called with: absent, empty, white space, and
\* names that configurations register or not
LookupNames == {None, Some(<<>>), Some(<<" ">>), Some(NameA), Some(NameC)}

\* a caller calls getRoutePath(name)
GetRoutePath ==
    /\ ops < MaxOps
    /\ ops' = ops + 1
    /\ \E name \in LookupNames :
           LET r == getRoutePath(routeMap, isInitialized, name)
           IN  /\ lookup' = Some([name |-> name, path |-> r.path, warned |-> r.warned])
               /\ warnings' = warnings \cup r.warned
    /\ UNCHANGED <<config, injectorRoutes, routeMap, isInitialized, initializationPromise,
                   builds, calls, loaderLog, resets, pathPattern, routeParams,
                   interpolated>>
    /\ UNCHANGED hostVars

\* The registry with its lookups: builds, resets, refreshes and getRoutePath
\* calls
NextLookup ==
    \/ Initialize
    \/ Reset
    \/ Refresh
    \/ GetRoutePath
    \/ \E tid \in 1..Len(builds) : Resume(tid)
    \/ \E tid \in 1..Len(builds) : LoaderSettles(tid)

SpecLookup == Init /\ [][NextLookup]_vars

\* how a hasRoute or getAllRouteNames call ended: the argument, if any, and
\* the value returned
QueryCompletion(op, at, name, value) ==
    [op |-> op, at |-> at, state |-> "returned", name |-> name, value |-> value]

\* a caller calls hasRoute(name)
HasRoute ==
    /\ ops < MaxOps
    /\ ops' = ops + 1
    /\ \E name \in LookupNames :
           completion' = Some(QueryCompletion("hasRoute", ops + 1, name,
                                              hasRoute(routeMap, name)))
    /\ UNCHANGED <<config, injectorRoutes, routeMap, isInitialized, initializationPromise,
                   builds, calls, loaderLog, warnings, resets, lookup, pathPattern,
                   routeParams, interpolated, link, linkInterpolated, router>>

\* a caller calls getAllRouteNames()
GetAllRouteNames ==
    /\ ops < MaxOps
    /\ ops' = ops + 1
    /\ completion' = Some(QueryCompletion("getAllRouteNames", ops + 1, None,
                                          getAllRouteNames(routeMap)))
    /\ UNCHANGED <<config, injectorRoutes, routeMap, isInitialized, initializationPromise,
                   builds, calls, loaderLog, warnings, resets, lookup, pathPattern,
                   routeParams, interpolated, link, linkInterpolated, router>>

\* The registry with its three queries: builds, resets and calls of
\* getRoutePath, hasRoute and getAllRouteNames
NextQuery ==
    \/ Initialize
    \/ Reset
    \/ GetRoutePath
    \/ HasRoute
    \/ GetAllRouteNames
    \/ \E tid \in 1..Len(builds) : Resume(tid)
    \/ \E tid \in 1..Len(builds) : LoaderSettles(tid)

SpecQuery == Init /\ [][NextQuery]_vars

\* One build of a freshly constructed service on a route tree of the family
InitBuild ==
    /\ \E shape \in Shapes, how \in Deliveries, n1 \in FamilyNodes, n2 \in FamilyNodes,
          n3 \in FamilyNodes :
            config = TreeOf(shape, how, n1, n2, n3)
    /\ injectorRoutes = None
    /\ routeMap = <<>>
    /\ isInitialized = FALSE
    /\ initializationPromise = 0
    /\ builds = <<>>
    /\ calls = <<>>
    /\ loaderLog = <<>>
    /\ warnings = {}
    /\ resets = 0
    /\ ops = 0
    /\ NoQueries

FirstInitialize ==
    /\ calls = <<>>
    /\ Initialize

NextBuild ==
    \/ FirstInitialize
    \/ \E tid \in 1..Len(builds) : Resume(tid)
    \/ \E tid \in 1..Len(builds) : LoaderSettles(tid)

SpecBuild == InitBuild /\ [][NextBuild]_vars

\* The values a loader can resolve to, each shape with a subtree of its own
\* for name b: a direct array (path 'x'), a default array (path 'v'), a
\* routes array (path 'w'), on an object, an object with a key containing
\* 'mod', or a module class
PathX == <<"x">>
PathH == <<"h">>
DefaultRoutes == ArrayValue(<<Leaf(PathV, NameB)>>)
OwnRoutes == ArrayValue(<<Leaf(PathW, NameB)>>)
LoadedValues ==
    { LoadedArray(<<Leaf(PathX, NameB)>>),
      LoadedObject(Some(DefaultRoutes), None, FALSE),
      LoadedObject(Some(DefaultRoutes), Some(OwnRoutes), FALSE),
      LoadedObject(Some(DefaultRoutes), Some(OwnRoutes), TRUE),
      LoadedObject(None, Some(OwnRoutes), FALSE),
      LoadedObject(None, Some(OwnRoutes), TRUE),
      LoadedObject(None, None, TRUE),
      LoadedObject(None, None, FALSE),
      LoadedFunction(Some(OwnRoutes)),
      LoadedFunction(None),
      LoadedOther }

\* what the injector holds under the ROUTES token: nothing, or one Routes
\* array (path 'h' for name b)
InjectedRoutes == {None, Some(<<<<Leaf(PathH, NameB)>>>>)}

\* One build of a fresh service whose only route loads one of the values
InitLazy ==
    /\ \E loaded \in LoadedValues :
           config = ArrayValue(<<Lazy(PathU, NameA, Loader(1, "resolve", loaded))>>)
    /\ injectorRoutes \in InjectedRoutes
    /\ routeMap = <<>>
    /\ isInitialized = FALSE
    /\ initializationPromise = 0
    /\ builds = <<>>
    /\ calls = <<>>
    /\ loaderLog = <<>>
    /\ warnings = {}
    /\ resets = 0
    /\ ops = 0
    /\ NoQueries

SpecLazy == InitLazy /\ [][NextBuild]_vars

\* The path patterns interpolation is run on: absent, or up to MaxPieces
\* pieces joined by '/', a piece being empty (which gives leading, trailing
\* and repeated separators), a literal, or a placeholder for a or c, required
\* or optional, with or without a constraint; the constraints are a plain
\* one, one that contains the separator and one that contains the
\* optionality marker
ParamA == <<"a">>
ParamC == <<"c">>
PatternPieces ==
    { <<>>,
      <<"b">>,
      <<":", "a">>,
      <<":", "a", "?">>,
      <<":", "c">>,
      <<":", "c", "?">>,
      <<":", "a", "(", "d", ")">>,
      <<":", "a", "(", "d", ")", "?">>,
      <<":", "a", "(", "d", "/", "e", ")">>,
      <<":", "c", "(", "?", ")">> }

\* the parameter bags: a absent, undefined, null, or a string or number
\* (empty, zero, with characters that need escaping), c absent or a string
ValuesOfA == {None, Some(Undefined), Some(Null), Some(Str(<<>>)), Some(Str(<<"x", " ", "/">>)),
              Some(Num(0)), Some(Num(12))}
ValuesOfC == {None, Some(Str(<<"y">>))}
Bag(a, c) ==
    (IF a = None THEN <<>> ELSE <<[key |-> ParamA, value |-> a[1]]>>)
        \o (IF c = None THEN <<>> ELSE <<[key |-> ParamC, value |-> c[1]]>>)

InitInterpolate ==
    /\ config = UndefinedValue
    /\ injectorRoutes = None
    /\ routeMap = <<>>
    /\ isInitialized = FALSE
    /\ initializationPromise = 0
    /\ builds = <<>>
    /\ calls = <<>>
    /\ loaderLog = <<>>
    /\ warnings = {}
    /\ resets = 0
    /\ ops = 0
    /\ lookup = None
    /\ \/ pathPattern = None
       \/ \E n \in 1..MaxPieces : \E pieces \in [1..n -> PatternPieces] :
              pathPattern = Some(Join(pieces, <<SLASH>>))
    /\ \E a \in ValuesOfA, c \in ValuesOfC : routeParams = Bag(a, c)
    /\ interpolated = None
    /\ link = Link(Some(NameA), routeParams, <<>>, None, None)
    /\ linkInterpolated = None
    /\ router = <<>>
    /\ completion = None

\* interpolatePathParams is called with the pattern and the bag
InterpolatePathParams ==
    /\ interpolated = None
    /\ interpolated' = Some(interpolatePathParams(pathPattern, routeParams))
    /\ UNCHANGED <<config, injectorRoutes, routeMap, isInitialized, initializationPromise,
                   builds, calls, loaderLog, warnings, resets, ops, lookup, pathPattern,
                   routeParams>>
    /\ UNCHANGED hostVars

\* the directive's interpolatePathParams is called with the pattern, on a
\* directive that holds the same bag
LinkInterpolatePathParams ==
    /\ linkInterpolated = None
    /\ linkInterpolated' = Some(linkInterpolatePathParams(link, pathPattern))
    /\ UNCHANGED <<config, injectorRoutes, routeMap, isInitialized, initializationPromise,
                   builds, calls, loaderLog, warnings, resets, ops, lookup, pathPattern,
                   routeParams, interpolated, link, router, completion>>

NextInterpolate ==
    \/ InterpolatePathParams
    \/ LinkInterpolatePathParams

SpecInterpolate == InitInterpolate /\ [][NextInterpolate]_vars

-----------------------------------------------------------------------------
(* Navigation by name: NamedRouterService on top of the registry and of the *)
(* host Router.  The host Router is not part of the library: each of its    *)
(* methods returns or throws as the caller of the model chooses, and the    *)
(* promise of navigateByUrl settles in a later step.                        *)

\* the Errors NamedRouterService throws: the fixed text of the message, the
\* route name the message names, and the message of the error it wraps
EmptyNameError ==
    [kind |-> "Error", text |-> "NamedRouterService: Route name must be a non-empty string",
     context |-> None, message |-> None]
NotFoundError(routeName) ==
    [kind |-> "Error", text |-> "NamedRouterService: Route not found in registry",
     context |-> Some(routeName), message |-> None]
NavigationFailedError(routeName, error) ==
    [kind |-> "Error", text |-> "NamedRouterService: Navigation failed",
     context |-> Some(routeName), message |-> Some(error)]

\* an Error of the host Router
HostError == [kind |-> "Error", text |-> "host router", context |-> None, names |-> <<>>]

\* how the host behaves during one operation
HostBehaviours == {"returns", "createUrlTree throws", "serializeUrl throws"}

\* the UrlTree the host builds from the commands and the extras it is given
UrlTree(segments, queryParams, fragment) ==
    [segments |-> segments, queryParams |-> queryParams, fragment |-> fragment]

\* one call to the host Router: the method, the tree built or passed, and
\* how the call ended (returned, threw; pending, resolved, rejected)
HostCall(method, tree, state) == [method |-> method, tree |-> tree, state |-> state]

\* NamedNavigationExtras: optional routeParams, queryParams and fragment
Extras(params, query, fragment) ==
    [routeParams |-> params, queryParams |-> query, fragment |-> fragment]

\* the loop that copies the query parameters that are neither undefined nor
\* null
DefinedParams(queryParams) ==
    SelectSeq(queryParams, LAMBDA e : e.value.type \notin {"undefined", "null"})

\* createUrlTreeFromPattern(pathPattern, extras): the tree or the error, and
\* the host calls made
createUrlTreeFromPattern(pattern, extras, host) ==
    LET bag == IF extras # None /\ extras[1].routeParams # None
               THEN extras[1].routeParams[1] ELSE <<>>
        i == interpolatePathParams(Some(pattern), bag)
        params == IF extras # None /\ extras[1].queryParams # None
                  THEN DefinedParams(extras[1].queryParams[1]) ELSE <<>>
        tree == UrlTree(i.segments, params,
                        IF extras # None THEN extras[1].fragment ELSE None)
    IN  IF ~i.ok
        THEN [ok |-> FALSE, tree |-> None, error |-> i.error, calls |-> <<>>]
        ELSE IF host = "createUrlTree throws"
        THEN [ok |-> FALSE, tree |-> None, error |-> Some(HostError),
              calls |-> <<HostCall("createUrlTree", tree, "threw")>>]
        ELSE [ok |-> TRUE, tree |-> Some(tree), error |-> None,
              calls |-> <<HostCall("createUrlTree", tree, "returned")>>]

\* how an operation ended: which operation it was and its arguments, the
\* position of the call among the caller's operations, and its state
\* (navigate: pending, fulfilled, rejected; createUrlTree: returned, threw)
\* with the error or the value
Completion(op, at, routeName, extras, state, error, value) ==
    [op |-> op, at |-> at, routeName |-> routeName, extras |-> extras, state |-> state,
     error |-> error, value |-> value]

navigateUnchecked(map, initialized, at, routeName, extras, host) ==
    LET r == getRoutePath(map, initialized, Some(routeName))
        pattern == IF r.path = None THEN <<>> ELSE r.path[1]
        t == createUrlTreeFromPattern(pattern, extras, host)
    IN  IF routeName = <<>>
        THEN [completion |-> Completion("navigate", at, routeName, extras, "rejected",
                                        Some(EmptyNameError), None),
              calls |-> <<>>, warned |-> {}]
        ELSE IF ~t.ok
        THEN [completion |-> Completion("navigate", at, routeName, extras, "rejected",
                                 Some(NavigationFailedError(routeName, t.error[1])), None),
              calls |-> t.calls, warned |-> r.warned]
        ELSE [completion |-> Completion("navigate", at, routeName, extras, "pending",
                                        None, None),
              calls |-> t.calls \o <<HostCall("navigateByUrl", t.tree[1], "pending")>>,
              warned |-> r.warned]

\* navigate(routeName, extras) up to its await: the promise it returns is
\* rejected, or pending on the host's navigateByUrl
navigate(map, initialized, at, routeName, extras, host) ==
    IF routeName = <<>>
    THEN [completion |-> Completion("navigate", at, routeName, extras, "rejected",
                                    Some(EmptyNameError), None),
          calls |-> <<>>, warned |-> {}]
    ELSE LET r == getRoutePath(map, initialized, Some(routeName))
         IN  IF r.path = None
             THEN [completion |-> Completion("navigate", at, routeName, extras, "rejected",
                                             Some(NotFoundError(routeName)), None),
                   calls |-> <<>>, warned |-> r.warned]
             ELSE LET t == createUrlTreeFromPattern(r.path[1], extras, host)
                  IN  IF ~t.ok
                      THEN [completion |->
                                Completion("navigate", at, routeName, extras, "rejected",
                                    Some(NavigationFailedError(routeName, t.error[1])), None),
                            calls |-> t.calls, warned |-> r.warned]
                      ELSE [completion |->
                                Completion("navigate", at, routeName, extras, "pending",
                                           None, None),
                            calls |-> t.calls
                                      \o <<HostCall("navigateByUrl", t.tree[1], "pending")>>,
                            warned |-> r.warned]

\* createUrlTree(routeName, extras): the tree it returns or the error it
\* throws
createUrlTree(map, initialized, at, routeName, extras, host) ==
    IF routeName = <<>>
    THEN [completion |-> Completion("createUrlTree", at, routeName, extras, "threw",
                                    Some(EmptyNameError), None),
          calls |-> <<>>, warned |-> {}]
    ELSE LET r == getRoutePath(map, initialized, Some(routeName))
         IN  IF r.path = None
             THEN [completion |-> Completion("createUrlTree", at, routeName, extras, "threw",
                                             Some(NotFoundError(routeName)), None),
                   calls |-> <<>>, warned |-> r.warned]
             ELSE LET t == createUrlTreeFromPattern(r.path[1], extras, host)
                  IN  [completion |->
                           Completion("createUrlTree", at, routeName, extras,
                                      IF t.ok THEN "returned" ELSE "threw", t.error, t.tree),
                       calls |-> t.calls, warned |-> r.warned]

\* the routes navigation is tried on: one named route whose path is empty, a
\* literal, or ends with a required or an optional placeholder
NavigatePatterns ==
    { <<>>, PathU, <<"u", SLASH, ":", "c">>, <<"u", SLASH, ":", "c", "?">> }

\* the names operations are called with: empty, registered, not registered
RouteNames == {<<>>, NameA, NameC}

\* the extras: none, empty, and a bag for c with query parameters (one of
\* them null) and a fragment
QueryBag == <<[key |-> <<"q">>, value |-> Null], [key |-> <<"r">>, value |-> Str(<<"z">>)]>>
ExtrasFamily ==
    { None,
      Some(Extras(None, None, None)),
      Some(Extras(Some(Bag(None, Some(Str(<<"y">>)))), Some(QueryBag), Some(<<"f">>))) }

\* a navigate call waits for the host's navigateByUrl
NavigationPending == IF completion = None THEN FALSE ELSE completion[1].state = "pending"

InitNavigate ==
    /\ \E pattern \in NavigatePatterns : config = ArrayValue(<<Leaf(pattern, NameA)>>)
    /\ injectorRoutes = None
    /\ routeMap = <<>>
    /\ isInitialized = FALSE
    /\ initializationPromise = 0
    /\ builds = <<>>
    /\ calls = <<>>
    /\ loaderLog = <<>>
    /\ warnings = {}
    /\ resets = 0
    /\ ops = 0
    /\ NoQueries

\* a caller calls NamedRouterService.navigate(routeName, extras) (or its
\* alias navigateByUrl) while no earlier navigation is pending
Navigate ==
    /\ ops < MaxOps
    /\ ops' = ops + 1
    /\ ~NavigationPending
    /\ \E routeName \in RouteNames, extras \in ExtrasFamily, host \in HostBehaviours :
           LET n == navigate(routeMap, isInitialized, ops + 1, routeName, extras, host)
           IN  /\ completion' = Some(n.completion)
               /\ router' = router \o n.calls
               /\ warnings' = warnings \cup n.warned
    /\ UNCHANGED <<config, injectorRoutes, routeMap, isInitialized, initializationPromise,
                   builds, calls, loaderLog, resets, lookup, pathPattern, routeParams,
                   interpolated, link, linkInterpolated>>

\* the promise of the host's navigateByUrl settles and navigate resumes: it
\* returns the host's value, or throws the error that wraps the rejection
NavigationSettles ==
    /\ NavigationPending
    /\ \E how \in {"true", "false", "reject"} :
           LET c == completion[1]
           IN  IF how = "reject"
               THEN /\ router' = [router EXCEPT ![Len(router)].state = "rejected"]
                    /\ completion' = Some([c EXCEPT
                           !.state = "rejected",
                           !.error = Some(NavigationFailedError(c.routeName, HostError))])
               ELSE /\ router' = [router EXCEPT ![Len(router)].state = "resolved"]
                    /\ completion' = Some([c EXCEPT !.state = "fulfilled",
                                                    !.value = Some(how)])
    /\ UNCHANGED <<config, injectorRoutes, routeMap, isInitialized, initializationPromise,
                   builds, calls, loaderLog, warnings, resets, ops, lookup, pathPattern,
                   routeParams, interpolated, link, linkInterpolated>>

\* a caller calls NamedRouterService.createUrlTree(routeName, extras)
CreateUrlTree ==
    /\ ops < MaxOps
    /\ ops' = ops + 1
    /\ ~NavigationPending
    /\ \E routeName \in RouteNames, extras \in ExtrasFamily, host \in HostBehaviours :
           LET n == createUrlTree(routeMap, isInitialized, ops + 1, routeName, extras, host)
           IN  /\ completion' = Some(n.completion)
               /\ router' = router \o n.calls
               /\ warnings' = warnings \cup n.warned
    /\ UNCHANGED <<config, injectorRoutes, routeMap, isInitialized, initializationPromise,
                   builds, calls, loaderLog, resets, lookup, pathPattern, routeParams,
                   interpolated, link, linkInterpolated>>

\* The navigation service over a registry that is built meanwhile
NextNavigate ==
    \/ FirstInitialize
    \/ \E tid \in 1..Len(builds) : Resume(tid)
    \/ Navigate
    \/ NavigationSettles
    \/ CreateUrlTree

SpecNavigate == InitNavigate /\ [][NextNavigate]_vars

-----------------------------------------------------------------------------
(* The link directive: NamedRouterLinkDirective over the registry and the   *)
(* host Router.                                                              *)

\* what the directive hands to console.warn
WarnLinkEmptyName == [kind |-> "link-empty-name", arg |-> None]
WarnLinkNotFound(name) == [kind |-> "link-not-found", arg |-> name]
WarnLinkNoName == [kind |-> "link-no-name", arg |-> None]

\* what the directive hands to console.error: the fixed text, the route name
\* and the message of the error caught
LinkError(text, name, error) ==
    [kind |-> "console.error", text |-> text, context |-> name, message |-> error]

\* !this.name
NoName(this) == this.name = None \/ this.name[1] = <<>>

\* what router.serializeUrl(urlTree) returns: the URL of that tree
serializeUrl(tree) == [url |-> tree]

\* validateInputs(): the warning it emits
validateInputs(this) == IF NoName(this) THEN {WarnLinkEmptyName} ELSE {}

\* the directive's createUrlTree(pathPattern): the tree or the error, and the
\* host calls made
linkCreateUrlTree(this, pattern, host) ==
    LET i == linkInterpolatePathParams(this, Some(pattern))
        tree == UrlTree(i.segments, DefinedParams(this.queryParams), this.fragment)
    IN  IF ~i.ok
        THEN [ok |-> FALSE, tree |-> None, error |-> i.error, calls |-> <<>>]
        ELSE IF host = "createUrlTree throws"
        THEN [ok |-> FALSE, tree |-> None, error |-> Some(HostError),
              calls |-> <<HostCall("createUrlTree", tree, "threw")>>]
        ELSE [ok |-> TRUE, tree |-> Some(tree), error |-> None,
              calls |-> <<HostCall("createUrlTree", tree, "returned")>>]

updateHrefKeepsStale(this, map, initialized, host) ==
    IF NoName(this)
    THEN [link |-> [this EXCEPT !.href = None], calls |-> <<>>, warned |-> {},
          logged |-> None]
    ELSE LET r == getRoutePath(map, initialized, this.name)
         IN  IF r.path = None
             THEN [link |-> this, calls |-> <<>>,
                   warned |-> r.warned \cup {WarnLinkNotFound(this.name)}, logged |-> None]
             ELSE LET t == linkCreateUrlTree(this, r.path[1], host)
                      failed == "NamedRouterLink: Failed to create URL for route"
                  IN  IF ~t.ok
                      THEN [link |-> [this EXCEPT !.href = None], calls |-> t.calls,
                            warned |-> r.warned,
                            logged |-> Some(LinkError(failed, this.name, t.error))]
                      ELSE IF host = "serializeUrl throws"
                      THEN [link |-> [this EXCEPT !.href = None],
                            calls |-> t.calls
                                      \o <<HostCall("serializeUrl", t.tree[1], "threw")>>,
                            warned |-> r.warned,
                            logged |-> Some(LinkError(failed, this.name, Some(HostError)))]
                      ELSE [link |-> [this EXCEPT !.href = Some(serializeUrl(t.tree[1]))],
                            calls |-> t.calls
                                      \o <<HostCall("serializeUrl", t.tree[1], "returned")>>,
                            warned |-> r.warned, logged |-> None]

\* updateHref(): the directive with its new href, the host calls made, the
\* warnings and the error logged
updateHref(this, map, initialized, host) ==
    IF NoName(this)
    THEN [link |-> [this EXCEPT !.href = None], calls |-> <<>>, warned |-> {},
          logged |-> None]
    ELSE LET r == getRoutePath(map, initialized, this.name)
         IN  IF r.path = None
             THEN [link |-> [this EXCEPT !.href = None], calls |-> <<>>,
                   warned |-> r.warned \cup {WarnLinkNotFound(this.name)}, logged |-> None]
             ELSE LET t == linkCreateUrlTree(this, r.path[1], host)
                      failed == "NamedRouterLink: Failed to create URL for route"
                  IN  IF ~t.ok
                      THEN [link |-> [this EXCEPT !.href = None], calls |-> t.calls,
                            warned |-> r.warned,
                            logged |-> Some(LinkError(failed, this.name, t.error))]
                      ELSE IF host = "serializeUrl throws"
                      THEN [link |-> [this EXCEPT !.href = None],
                            calls |-> t.calls
                                      \o <<HostCall("serializeUrl", t.tree[1], "threw")>>,
                            warned |-> r.warned,
                            logged |-> Some(LinkError(failed, this.name, Some(HostError)))]
                      ELSE [link |-> [this EXCEPT !.href = Some(serializeUrl(t.tree[1]))],
                            calls |-> t.calls
                                      \o <<HostCall("serializeUrl", t.tree[1], "returned")>>,
                            warned |-> r.warned, logged |-> None]

\* the directive's navigate(): the host calls made, the warnings and the
\* error logged; the promise of navigateByUrl is not awaited
linkNavigate(this, map, initialized, host) ==
    IF NoName(this)
    THEN [calls |-> <<>>, warned |-> {WarnLinkNoName}, logged |-> None]
    ELSE LET r == getRoutePath(map, initialized, this.name)
         IN  IF r.path = None
             THEN [calls |-> <<>>, warned |-> r.warned,
                   logged |-> Some(LinkError("NamedRouterLink: Cannot navigate to unknown route",
                                             this.name, None))]
             ELSE LET t == linkCreateUrlTree(this, r.path[1], host)
                  IN  IF ~t.ok
                      THEN [calls |-> t.calls, warned |-> r.warned,
                            logged |-> Some(LinkError(
                                "NamedRouterLink: Navigation failed for route",
                                this.name, t.error))]
                      ELSE [calls |-> t.calls
                                      \o <<HostCall("navigateByUrl", t.tree[1], "pending")>>,
                            warned |-> r.warned, logged |-> None]

\* a MouseEvent: the fields onClick reads
MouseEvent(button, ctrlKey, metaKey, shiftKey) ==
    [button |-> button, ctrlKey |-> ctrlKey, metaKey |-> metaKey, shiftKey |-> shiftKey]

MOUSE_PRIMARY_BUTTON == 0

onClickIgnoresShift(this, event, map, initialized, host) ==
    IF \/ this.target = Some(<<"_", "b", "l", "a", "n", "k">>)
       \/ event.button # MOUSE_PRIMARY_BUTTON
       \/ event.ctrlKey
       \/ event.metaKey
    THEN [returned |-> TRUE, defaultPrevented |-> FALSE, calls |-> <<>>, warned |-> {},
          logged |-> None]
    ELSE LET n == linkNavigate(this, map, initialized, host)
         IN  [returned |-> FALSE, defaultPrevented |-> TRUE, calls |-> n.calls,
              warned |-> n.warned, logged |-> n.logged]

\* onClick(event): what it returns, whether it called event.preventDefault,
\* and what navigate() did
onClick(this, event, map, initialized, host) ==
    IF \/ this.target = Some(<<"_", "b", "l", "a", "n", "k">>)
       \/ event.button # MOUSE_PRIMARY_BUTTON
       \/ event.ctrlKey
       \/ event.metaKey
       \/ event.shiftKey
    THEN [returned |-> TRUE, defaultPrevented |-> FALSE, calls |-> <<>>, warned |-> {},
          logged |-> None]
    ELSE LET n == linkNavigate(this, map, initialized, host)
         IN  [returned |-> FALSE, defaultPrevented |-> TRUE, calls |-> n.calls,
              warned |-> n.warned, logged |-> n.logged]

\* how an update of the directive ended: the error logged, if any
UpdateCompletion(at, logged) ==
    [op |-> "updateHref", at |-> at, state |-> "returned", error |-> logged]

\* how a click ended: the event, what the handler returned, whether the
\* default was prevented, and the error logged, if any
ClickCompletion(at, event, returned, defaultPrevented, logged) ==
    [op |-> "onClick", at |-> at, state |-> "returned", event |-> event,
     returned |-> returned, defaultPrevented |-> defaultPrevented, error |-> logged]

\* the values the template binds to the inputs: the name absent, empty,
\* registered or not; a bag for c or none; query parameters or none; a
\* fragment or none; a target or none
LinkNames == {None, Some(<<>>), Some(NameA), Some(NameC)}
LinkBags == {<<>>, Bag(None, Some(Str(<<"y">>)))}
LinkQueries == {<<>>, QueryBag}
LinkFragments == {None, Some(<<"f">>)}
LinkTargets == {None, Some(<<"_", "b", "l", "a", "n", "k">>),
                Some(<<"_", "s", "e", "l", "f">>)}

\* the inputs a change detection run finds changed: the SimpleChanges
Changes(this, bound) ==
    {input \in {"name", "routeParams", "queryParams", "fragment", "target"} :
        this[input] # bound[input]}

\* the clicks: primary or middle button, with or without each modifier
MouseEvents ==
    {MouseEvent(b, c, m, sh) : b \in {0, 1}, c \in BOOLEAN, m \in BOOLEAN, sh \in BOOLEAN}

\* Angular calls ngOnInit(), once
NgOnInit ==
    /\ ~link.inited
    /\ \E host \in HostBehaviours :
           LET u == updateHref(link, routeMap, isInitialized, host)
           IN  /\ link' = [u.link EXCEPT !.inited = TRUE]
               /\ router' = router \o u.calls
               /\ warnings' = warnings \cup validateInputs(link) \cup u.warned
               /\ completion' = Some(UpdateCompletion(ops, u.logged))
    /\ UNCHANGED <<config, injectorRoutes, routeMap, isInitialized, initializationPromise,
                   builds, calls, loaderLog, resets, ops, lookup, pathPattern, routeParams,
                   interpolated, linkInterpolated>>

\* the values one input can be bound to
BoundValues(input) ==
    CASE input = "name" -> LinkNames
      [] input = "routeParams" -> LinkBags
      [] input = "queryParams" -> LinkQueries
      [] input = "fragment" -> LinkFragments
      [] input = "target" -> LinkTargets

\* a change detection run: Angular assigns an input whose bound value changed
\* and calls ngOnChanges(changes)
NgOnChanges ==
    /\ ops < MaxOps
    /\ ops' = ops + 1
    /\ \E input \in {"name", "routeParams", "queryParams", "fragment", "target"},
          host \in HostBehaviours :
         \E value \in BoundValues(input) :
           LET this == [link EXCEPT ![input] = value]
               changes == Changes(link, this)
               u == updateHref(this, routeMap, isInitialized, host)
           IN  /\ changes # {}
               /\ IF changes \cap {"name", "routeParams", "queryParams", "fragment"} # {}
                  THEN /\ link' = u.link
                       /\ router' = router \o u.calls
                       /\ warnings' = warnings \cup validateInputs(this) \cup u.warned
                       /\ completion' = Some(UpdateCompletion(ops + 1, u.logged))
                  ELSE /\ link' = this
                       /\ UNCHANGED <<router, warnings, completion>>
    /\ UNCHANGED <<config, injectorRoutes, routeMap, isInitialized, initializationPromise,
                   builds, calls, loaderLog, resets, lookup, pathPattern, routeParams,
                   interpolated, linkInterpolated>>

\* the user clicks the rendered element
OnClick ==
    /\ ops < MaxOps
    /\ ops' = ops + 1
    /\ link.inited
    /\ \E event \in MouseEvents, host \in {"returns", "createUrlTree throws"} :
           \E c \in {onClick(link, event, routeMap, isInitialized, host)} :
               /\ router' = router \o c.calls
               /\ warnings' = warnings \cup c.warned
               /\ completion' = Some(ClickCompletion(ops + 1, event, c.returned,
                                                     c.defaultPrevented, c.logged))
    /\ UNCHANGED <<config, injectorRoutes, routeMap, isInitialized, initializationPromise,
                   builds, calls, loaderLog, resets, lookup, pathPattern, routeParams,
                   interpolated, link, linkInterpolated>>

\* The directive over a registry that is built meanwhile
NextLink ==
    \/ FirstInitialize
    \/ \E tid \in 1..Len(builds) : Resume(tid)
    \/ NgOnInit
    \/ NgOnChanges
    \/ OnClick

SpecLink == InitNavigate /\ [][NextLink]_vars

-----------------------------------------------------------------------------
(* What the properties speak about *)

Pending == {t \in 1..Len(builds) : builds[t].status = "pending"}
Settled(t) == builds[t].status # "pending"

\* the join of a parent prefix and a node's path as the registry contract
\* states it: an empty path adds no segment, separators do not repeat
ExpectedJoin(parent, path) ==
    IF path = <<>> THEN parent
    ELSE IF parent = <<>> THEN path
    ELSE CollapseSlashes(parent \o <<SLASH>> \o path)

\* the subtree a settled loader contributes, by the contract's shapes
ExpectedSubtree(route) ==
    IF route.loadChildren = None THEN <<>>
    ELSE LET v == route.loadChildren[1].loaded
         IN  IF route.loadChildren[1].outcome # "resolve" THEN <<>>
             ELSE IF v.type = "array" THEN v.items
             ELSE IF v.type = "object" /\ v.default # None /\ v.default[1].type = "array"
             THEN v.default[1].items
             ELSE IF v.type = "object" /\ v.routes # None /\ v.routes[1].type = "array"
             THEN v.routes[1].items
             ELSE <<>>

NonBlank(name) == name # None /\ \E i \in 1..Len(name[1]) : name[1][i] # " "

\* the named nodes of a tree with their joined paths, in depth-first order
RECURSIVE ExpectedEntries(_, _)
ExpectedEntries(routes, parent) ==
    IF routes = <<>> THEN <<>>
    ELSE LET r == Head(routes)
             full == ExpectedJoin(parent, r.path)
             own == IF NonBlank(r.name) THEN <<[name |-> r.name[1], path |-> full]>> ELSE <<>>
             kids == IF r.children = None THEN <<>> ELSE r.children[1]
         IN  own \o ExpectedEntries(kids, full) \o ExpectedEntries(ExpectedSubtree(r), full)
                 \o ExpectedEntries(Tail(routes), parent)

\* every loader of the tree resolves to a sequence in a recognised shape
RECURSIVE LoadersDeliver(_)
LoadersDeliver(routes) ==
    \A i \in 1..Len(routes) :
        LET r == routes[i]
        IN  /\ r.children # None => LoadersDeliver(r.children[1])
            /\ r.loadChildren # None =>
                   /\ r.loadChildren[1].outcome = "resolve"
                   /\ \/ r.loadChildren[1].loaded.type = "array"
                      \/ /\ r.loadChildren[1].loaded.type = "object"
                         /\ \/ /\ r.loadChildren[1].loaded.default # None
                               /\ r.loadChildren[1].loaded.default[1].type = "array"
                            \/ /\ r.loadChildren[1].loaded.routes # None
                               /\ r.loadChildren[1].loaded.routes[1].type = "array"
                   /\ LoadersDeliver(ExpectedSubtree(r))

UniqueNames(entries) ==
    \A i, j \in 1..Len(entries) : entries[i].name = entries[j].name => i = j

\* the first entry, in depth-first order, whose name an earlier entry has
FirstDuplicate(entries) ==
    CHOOSE j \in 1..Len(entries) :
        /\ \E i \in 1..(j - 1) : entries[i].name = entries[j].name
        /\ \A k \in 1..(j - 1) : \A i \in 1..(k - 1) : entries[i].name # entries[k].name

-----------------------------------------------------------------------------
(* Properties *)

\* C1: on a freshly constructed service, for a route tree whose non-blank
\* names are all different and whose loaders all deliver a route sequence,
\* the build succeeds, marks the service initialized, and getRoutePath
\* returns for every named node the join of the paths from the root to it,
\* and undefined for every other name.
C1_BuildRegistersJoinedPaths ==
    LET entries == ExpectedEntries(config.items, <<>>)
    IN  (/\ Len(builds) = 1
         /\ Settled(1)
         /\ LoadersDeliver(config.items)
         /\ UniqueNames(entries))
        => /\ builds[1].status = "fulfilled"
           /\ isInitialized
           /\ \A i \in 1..Len(entries) :
                  MapGet(routeMap, entries[i].name) = Some(entries[i].path)
           /\ \A i \in 1..Len(routeMap) :
                  \E j \in 1..Len(entries) : entries[j].name = routeMap[i].name

\* C1 witness: a finished build that went through two lazily loaded
\* subtrees, the middle node with an empty path and no name, and registered
\* the root node and the innermost node under the joined path.
C1_Witness ==
    /\ Len(builds) = 1
    /\ builds[1].status = "fulfilled"
    /\ isInitialized
    /\ Len(loaderLog) = 2
    /\ UniqueNames(ExpectedEntries(config.items, <<>>))
    /\ routeMap = <<[name |-> NameA, path |-> PathU],
                    [name |-> NameB, path |-> <<"u", SLASH, "u">>]>>

\* C2: for a route tree in which two nodes have the same non-blank name (and
\* whose loaders all deliver), the build fails with a DuplicateRouteNameError
\* that carries the name, the path stored first and the newly computed path.
C2_DuplicateFailsWithDuplicateError ==
    LET entries == ExpectedEntries(config.items, <<>>)
    IN  (/\ Len(builds) = 1
         /\ Settled(1)
         /\ LoadersDeliver(config.items)
         /\ ~UniqueNames(entries))
        => /\ builds[1].status = "rejected"
           /\ builds[1].error[1].kind = "DuplicateRouteNameError"
           /\ LET j == FirstDuplicate(entries)
              IN  /\ builds[1].error[1].name = entries[j].name
                  /\ builds[1].error[1].newPath = entries[j].path
                  /\ \E i \in 1..(j - 1) :
                         /\ entries[i].name = entries[j].name
                         /\ builds[1].error[1].existingPath = entries[i].path

\* C3: a step that does not execute reset() leaves every registered name
\* registered with the path it had: no build, refresh or loader completion
\* replaces the path stored under an existing name.
C3_NoSilentOverwrite ==
    [][resets' = resets =>
          \A i \in 1..Len(routeMap) :
              MapGet(routeMap', routeMap[i].name) = Some(routeMap[i].path)]_vars

\* C3 witness: a second path was offered for a registered name, the build
\* that offered it was rejected, and the name still has its first path.
C3_Witness ==
    \E t \in 1..Len(builds) :
        /\ builds[t].status = "rejected"
        /\ builds[t].error[1].kind = "DuplicateRouteNameError"
        /\ builds[t].error[1].existingPath # builds[t].error[1].newPath
        /\ MapGet(routeMap, builds[t].error[1].name) = Some(builds[t].error[1].existingPath)

\* C4: two initialize()/refresh() calls with no reset() between them, the
\* later one made while the promise of the earlier one was unsettled, are
\* handed the same promise (one traversal serves both).
C4_BuildCoalescing ==
    \A i, j \in 1..Len(calls) :
        (/\ i < j
         /\ calls[i].epoch = calls[j].epoch
         /\ calls[i].promise \in calls[j].pending)
        => calls[j].promise = calls[i].promise

\* C5: at no time are two traversals unfinished.
C5_OneTraversalInFlight == Cardinality(Pending) <= 1

\* C6: when a build is rejected, the registry holds none of the names that
\* build stored, and the service is not marked initialized.
C6_AtomicFailure ==
    [][\A t \in 1..Len(builds) :
          (builds[t].status = "pending" /\ builds'[t].status = "rejected")
          => /\ \A n \in builds'[t].registered : ~MapHas(routeMap', n)
             /\ ~isInitialized']_vars

\* C7: the in-flight reference never designates a build that has failed.
C7_FailedBuildIsForgotten ==
    \A t \in 1..Len(builds) :
        builds[t].status = "rejected" => initializationPromise # t

\* C8: the service is marked initialized only if a build started after the
\* most recent reset() has completed successfully.
C8_StaleBuildNotTrusted ==
    isInitialized =>
        \E t \in 1..Len(builds) :
            builds[t].status = "fulfilled" /\ builds[t].epoch = resets

\* C9: when the build of a refresh() call completes successfully, the
\* registry holds exactly the entries of the configuration that was current
\* at the call.
C9_RefreshReflectsConfig ==
    [][\A k \in 1..Len(calls) :
          (/\ calls[k].op = "refresh"
           /\ builds[calls[k].promise].status = "pending"
           /\ builds'[calls[k].promise].status = "fulfilled")
          => LET entries == ExpectedEntries(builds[calls[k].promise].root.items, <<>>)
             IN  /\ \A i \in 1..Len(entries) :
                        MapGet(routeMap', entries[i].name) = Some(entries[i].path)
                 /\ \A i \in 1..Len(routeMap') :
                        \E j \in 1..Len(entries) : entries[j].name = routeMap'[i].name]_vars

\* C10: an initialize() call on a service that is marked initialized starts
\* no traversal, invokes no loader and leaves the map and the flag as they
\* are, whatever the current configuration is.
C10_BuildAfterSuccessIsNoOp ==
    [][(/\ isInitialized
        /\ Len(calls') = Len(calls) + 1
        /\ calls'[Len(calls')].op = "initialize")
       => /\ routeMap' = routeMap
          /\ isInitialized'
          /\ builds' = builds
          /\ loaderLog' = loaderLog]_vars

\* C10 witness: initialize() returned at once on an initialized service
\* whose configuration is no longer the one that was built.
C10_Witness ==
    /\ isInitialized
    /\ calls # <<>>
    /\ calls[Len(calls)].op = "initialize"
    /\ calls[Len(calls)].promise = 0
    /\ config.type = "array"
    /\ \E i \in 1..Len(ExpectedEntries(config.items, <<>>)) :
           MapGet(routeMap, ExpectedEntries(config.items, <<>>)[i].name)
               # Some(ExpectedEntries(config.items, <<>>)[i].path)

\* the names queries are made with: absent, empty, blank, and three names
QueryNames == {None, Some(<<>>), Some(<<" ">>), Some(NameA), Some(NameB), Some(NameC)}

\* C11: in the state right after a reset() call, from whatever state it is
\* made in, getAllRouteNames() is empty, hasRoute(n) is false and
\* getRoutePath(n) is undefined for every name n, the service is not marked
\* initialized and holds no build promise.
C11_ResetPostconditions ==
    [][(resets' = resets + 1 /\ calls' = calls)
       => /\ getAllRouteNames(routeMap') = <<>>
          /\ \A n \in QueryNames :
                 /\ ~hasRoute(routeMap', n)
                 /\ getRoutePath(routeMap', isInitialized', n).path = None
          /\ ~isInitialized'
          /\ initializationPromise' = 0]_vars

\* C11 witness: reset() was called while a build that had already stored
\* a name was waiting for its loader; the registry is empty and no build
\* promise is held.
C11_Witness ==
    /\ resets = 1
    /\ Len(builds) = 1
    /\ builds[1].status = "pending"
    /\ builds[1].registered # {}
    /\ routeMap = <<>>
    /\ ~isInitialized
    /\ initializationPromise = 0

\* the routes a loader's value carries, in whichever property
LoadedRoutes(route) ==
    IF route.loadChildren = None THEN <<>>
    ELSE LET v == route.loadChildren[1].loaded
         IN  IF v.type = "array" THEN v.items
             ELSE IF v.default # None /\ v.default[1].type = "array" THEN v.default[1].items
             ELSE IF v.routes # None /\ v.routes[1].type = "array" THEN v.routes[1].items
             ELSE <<>>

\* the loaders of a tree in depth-first encounter order (a node's children
\* come before its own loader), each with the loaders of its loaded subtree
RECURSIVE LoadersInOrder(_)
LoadersInOrder(routes) ==
    IF routes = <<>> THEN <<>>
    ELSE LET r == Head(routes)
             kids == IF r.children = None THEN <<>> ELSE r.children[1]
             sub == LoadersInOrder(LoadedRoutes(r))
             own == IF r.loadChildren = None THEN <<>>
                    ELSE <<[id |-> r.loadChildren[1].id,
                            inside |-> {sub[k].id : k \in 1..Len(sub)}]>> \o sub
         IN  LoadersInOrder(kids) \o own \o LoadersInOrder(Tail(routes))

\* the position of loader id in the encounter order of the configuration
EncounterIndex(id) ==
    CHOOSE k \in 1..Len(LoadersInOrder(config.items)) :
        LoadersInOrder(config.items)[k].id = id

\* two invocations of one build appear in the log in encounter order
InEncounterOrder(i, j) ==
    EncounterIndex(loaderLog[i].id) < EncounterIndex(loaderLog[j].id)

\* C12 as stated: of two loaders invoked by one build, the earlier has
\* settled and its loaded subtree has been walked to the end before the later
\* is invoked (so it is over whenever the later one is in the log), and the
\* invocations follow the depth-first encounter order.
C12_LoadersStrictlySequential ==
    \A i, j \in 1..Len(loaderLog) :
        (i < j /\ loaderLog[i].build = loaderLog[j].build)
        => /\ loaderLog[i].state \in {"done", "failed"}
           /\ InEncounterOrder(i, j)

\* C12 amended: of two loaders invoked by one build, the earlier has settled
\* before the later is invoked, and its loaded subtree has been walked to the
\* end unless the later loader belongs to that subtree; no two loaders of a
\* build are pending together, and the invocations follow the depth-first
\* encounter order.
C12_LoadersSequentialInOrder ==
    \A i, j \in 1..Len(loaderLog) :
        (i < j /\ loaderLog[i].build = loaderLog[j].build)
        => /\ \/ loaderLog[i].state \in {"done", "failed"}
              \/ /\ loaderLog[i].state = "loaded"
                 /\ loaderLog[j].id \in
                        LoadersInOrder(config.items)[EncounterIndex(loaderLog[i].id)].inside
           /\ InEncounterOrder(i, j)

\* C12 witness: a build invoked the loaders of two sibling nodes, the
\* second after the subtree of the first was walked, and completed.
C12_Witness ==
    /\ Len(builds) = 1
    /\ builds[1].status = "fulfilled"
    /\ Len(loaderLog) = 2
    /\ loaderLog[1].id = 1 /\ loaderLog[1].state = "done"
    /\ loaderLog[2].id = 2 /\ loaderLog[2].state = "done"
    /\ LoadersInOrder(config.items)[1].inside = {}
    /\ Len(routeMap) = 2

\* the text of an error's message, as the parts it is made of: its own
\* text, the path it names, and the message of the error it wraps
RECURSIVE MessageParts(_)
MessageParts(e) ==
    <<e.message, e.path>> \o (IF e.cause = None THEN <<>> ELSE MessageParts(e.cause[1]))

\* the loaders of a tree with the full paths of their nodes
RECURSIVE LoaderPaths(_, _)
LoaderPaths(routes, parent) ==
    IF routes = <<>> THEN <<>>
    ELSE LET r == Head(routes)
             full == ExpectedJoin(parent, r.path)
             kids == IF r.children = None THEN <<>> ELSE r.children[1]
             own == IF r.loadChildren = None THEN <<>>
                    ELSE <<[id |-> r.loadChildren[1].id, path |-> full]>>
         IN  own \o LoaderPaths(kids, full) \o LoaderPaths(LoadedRoutes(r), full)
                 \o LoaderPaths(Tail(routes), parent)

\* the message says that the lazy module at this path failed with this text
SaysLoadFailedAt(e, path, text) ==
    \E k \in 1..(Len(MessageParts(e)) - 2) :
        /\ MessageParts(e)[k] = "Failed to load lazy module"
        /\ MessageParts(e)[k + 1] = path
        /\ MessageParts(e)[k + 2] = text

\* C13: when a loader of the build rejects, the build is rejected with a
\* NamedRouteError whose message carries the message of the loader's failure
\* and the full path of the node whose loader it was, and the service is not
\* marked initialized.
C13_LoaderRejectionFailsBuild ==
    \A i \in 1..Len(loaderLog) :
        (/\ Len(builds) = 1
         /\ Settled(1)
         /\ loaderLog[i].state = "failed")
        => /\ builds[1].status = "rejected"
           /\ builds[1].error[1].kind = "NamedRouteError"
           /\ \E k \in 1..Len(LoaderPaths(config.items, <<>>)) :
                  /\ LoaderPaths(config.items, <<>>)[k].id = loaderLog[i].id
                  /\ SaysLoadFailedAt(builds[1].error[1],
                                      LoaderPaths(config.items, <<>>)[k].path,
                                      LoaderFailure.message)
           /\ ~isInitialized

\* C13 witness: the loader of a node inside a lazily loaded subtree
\* rejected, and the build was rejected with an error that names the path of
\* the enclosing node and wraps the error that names the path of that node.
C13_Witness ==
    /\ Len(builds) = 1
    /\ builds[1].status = "rejected"
    /\ Len(loaderLog) = 2
    /\ loaderLog[2].state = "failed"
    /\ builds[1].error[1].path = PathU
    /\ builds[1].error[1].cause # None
    /\ builds[1].error[1].cause[1].path = <<"u", SLASH, "u">>
    /\ builds[1].error[1].cause[1].cause = Some(LoaderFailure)

\* a loader's value in none of the shapes the contract recognises: not a
\* sequence, no default sequence, no routes sequence (and nothing from the
\* injector, as everywhere in these specifications)
Unrecognised(v) ==
    /\ v.type # "array"
    /\ v.default = None \/ v.default[1].type # "array"
    /\ v.routes = None \/ v.routes[1].type # "array"
    /\ injectorRoutes = None

\* every loader of the tree resolves, to a sequence, to an object with a
\* default or routes sequence, or to an unrecognised value
RECURSIVE LoadersResolve(_)
LoadersResolve(routes) ==
    \A i \in 1..Len(routes) :
        LET r == routes[i]
        IN  /\ r.children # None => LoadersResolve(r.children[1])
            /\ r.loadChildren # None =>
                   /\ r.loadChildren[1].outcome = "resolve"
                   /\ \/ Unrecognised(r.loadChildren[1].loaded)
                      \/ r.loadChildren[1].loaded.type \in {"array", "object"}
                   /\ LoadersResolve(ExpectedSubtree(r))

RECURSIVE HasUnrecognised(_)
HasUnrecognised(routes) ==
    \E i \in 1..Len(routes) :
        LET r == routes[i]
        IN  \/ r.children # None /\ HasUnrecognised(r.children[1])
            \/ /\ r.loadChildren # None
               /\ \/ Unrecognised(r.loadChildren[1].loaded)
                  \/ HasUnrecognised(ExpectedSubtree(r))

\* C14: for a route tree with unique names whose loaders all resolve, one of
\* them to a value of an unrecognised shape, the build completes and marks
\* the service initialized, a warning was emitted for the unrecognised value,
\* and the registry holds exactly the named nodes of the tree, the loader
\* with the unrecognised value contributing none.
C14_UnrecognisedShapeIsSkipped ==
    LET entries == ExpectedEntries(config.items, <<>>)
    IN  (/\ Len(builds) = 1
         /\ Settled(1)
         /\ config.type = "array"
         /\ LoadersResolve(config.items)
         /\ HasUnrecognised(config.items)
         /\ UniqueNames(entries))
        => /\ builds[1].status = "fulfilled"
           /\ isInitialized
           /\ WarnUnextractable \in warnings
           /\ \A i \in 1..Len(entries) :
                  MapGet(routeMap, entries[i].name) = Some(entries[i].path)
           /\ \A i \in 1..Len(routeMap) :
                  \E j \in 1..Len(entries) : entries[j].name = routeMap[i].name

\* a name that is present and blank: empty, or white space only
Blank(name) == name # None /\ \A i \in 1..Len(name[1]) : name[1][i] = " "

RECURSIVE HasBlankName(_)
HasBlankName(routes) ==
    \E i \in 1..Len(routes) :
        LET r == routes[i]
        IN  \/ Blank(r.name)
            \/ r.children # None /\ HasBlankName(r.children[1])
            \/ HasBlankName(ExpectedSubtree(r))

\* C15: no key of the registry is ever blank; and for a route tree with
\* unique names and delivering loaders in which some node has a blank name
\* (empty or white space only), the build completes and the blank-name
\* warning was emitted.
C15_BlankNamesSkippedWithWarning ==
    /\ \A i \in 1..Len(routeMap) : ~Blank(Some(routeMap[i].name))
    /\ (/\ Len(builds) = 1
        /\ Settled(1)
        /\ config.type = "array"
        /\ LoadersDeliver(config.items)
        /\ UniqueNames(ExpectedEntries(config.items, <<>>))
        /\ HasBlankName(config.items))
       => /\ builds[1].status = "fulfilled"
          /\ WarnBlankName \in warnings

\* C16: a build whose root configuration is missing or is not an array is
\* rejected with a NamedRouteError and registers nothing; when it is the only
\* build the service has run, the registry is empty and not marked
\* initialized afterwards.
C16_InvalidRootFailsBuild ==
    \A t \in 1..Len(builds) :
        (builds[t].root.type # "array" /\ Settled(t))
        => /\ builds[t].status = "rejected"
           /\ builds[t].error[1].kind = "NamedRouteError"
           /\ builds[t].registered = {}
           /\ Len(builds) = 1 => (routeMap = <<>> /\ ~isInitialized)

\* C16 witness: the only build of the service ran on a root that is an
\* object but not an array and was rejected for that.
C16_Witness ==
    /\ Len(builds) = 1
    /\ builds[1].root = ObjectValue
    /\ builds[1].status = "rejected"
    /\ builds[1].error = Some(NotArrayError)
    /\ routeMap = <<>>
    /\ ~isInitialized

\* a step that is a getRoutePath call
IsLookupStep ==
    /\ ops' = ops + 1
    /\ calls' = calls
    /\ resets' = resets

\* C17: a getRoutePath call changes nothing of the registry.  For a blank or
\* absent name it returns undefined and emits the invalid-name warning and no
\* other; for a registered name it returns the path and emits nothing; for
\* any other name it returns undefined and emits the not-found warning if and
\* only if a build of the registry has completed successfully.
C17_LookupWarnings ==
    [][IsLookupStep =>
          LET name == lookup'[1].name
              path == lookup'[1].path
              warned == lookup'[1].warned
          IN  /\ routeMap' = routeMap
              /\ isInitialized' = isInitialized
              /\ initializationPromise' = initializationPromise
              /\ builds' = builds
              /\ warnings' = warnings \cup warned
              /\ IF name = None \/ Blank(name)
                 THEN path = None /\ warned = {WarnInvalidName(name)}
                 ELSE IF \E i \in 1..Len(routeMap) : routeMap[i].name = name[1]
                 THEN /\ \E i \in 1..Len(routeMap) :
                            routeMap[i].name = name[1] /\ path = Some(routeMap[i].path)
                      /\ warned = {}
                 ELSE /\ path = None
                      /\ warned \subseteq {WarnNotFound(name)}
                      /\ WarnNotFound(name) \in warned
                             <=> \E t \in 1..Len(builds) : builds[t].status = "fulfilled"
      ]_vars

\* the '/'-separated pieces of a pattern, and those that are not empty
RECURSIVE PiecesFrom(_, _)
PiecesFrom(s, piece) ==
    IF s = <<>> THEN <<piece>>
    ELSE IF Head(s) = SLASH THEN <<piece>> \o PiecesFrom(Tail(s), <<>>)
    ELSE PiecesFrom(Tail(s), Append(piece, Head(s)))

RECURSIVE NonEmptyOf(_)
NonEmptyOf(pieces) ==
    IF pieces = <<>> THEN <<>>
    ELSE (IF Head(pieces) = <<>> THEN <<>> ELSE <<Head(pieces)>>) \o NonEmptyOf(Tail(pieces))

PatternPiecesOf(pattern) == NonEmptyOf(PiecesFrom(pattern, <<>>))

\* a placeholder piece begins with ':'; it is optional when it ends with '?';
\* its parameter name is what follows the ':' up to the constraint or marker
IsPlaceholder(piece) == Head(piece) = ":"
IsOptionalPiece(piece) == piece[Len(piece)] = "?"

RECURSIVE NameChars(_)
NameChars(s) ==
    IF s = <<>> \/ Head(s) \in {"(", "?"} THEN <<>>
    ELSE <<Head(s)>> \o NameChars(Tail(s))

PlaceholderName(piece) == NameChars(Tail(piece))

\* the bag has a value for the name: present, not undefined, not null
HasValue(bag, name) ==
    \E i \in 1..Len(bag) : bag[i].key = name /\ bag[i].value.type \in {"string", "number"}
ValueOf(bag, name) ==
    bag[CHOOSE i \in 1..Len(bag) : bag[i].key = name].value

\* the encoded string form of the values of the bags, written out
ExpectedEncoding(v) ==
    CASE v = Str(<<>>) -> <<>>
      [] v = Str(<<"x", " ", "/">>) -> <<"x", "%", "2", "0", "%", "2", "F">>
      [] v = Str(<<"y">>) -> <<"y">>
      [] v = Num(0) -> <<"0">>
      [] v = Num(12) -> <<"1", "2">>

\* one segment per literal and per placeholder with a value, in pattern order
RECURSIVE ExpectedSegments(_, _)
ExpectedSegments(pieces, bag) ==
    IF pieces = <<>> THEN <<>>
    ELSE LET piece == Head(pieces)
             own == IF ~IsPlaceholder(piece) THEN <<piece>>
                    ELSE IF HasValue(bag, PlaceholderName(piece))
                    THEN <<ExpectedEncoding(ValueOf(bag, PlaceholderName(piece)))>>
                    ELSE <<>>
         IN  own \o ExpectedSegments(Tail(pieces), bag)

\* the names of the required placeholders without a value, in pattern order
RECURSIVE RequiredMissing(_, _)
RequiredMissing(pieces, bag) ==
    IF pieces = <<>> THEN <<>>
    ELSE LET piece == Head(pieces)
             own == IF /\ IsPlaceholder(piece)
                       /\ ~IsOptionalPiece(piece)
                       /\ ~HasValue(bag, PlaceholderName(piece))
                    THEN <<PlaceholderName(piece)>> ELSE <<>>
         IN  own \o RequiredMissing(Tail(pieces), bag)

EmptyPattern == pathPattern = None \/ pathPattern[1] = <<>>
PiecesOfPattern == IF EmptyPattern THEN <<>> ELSE PatternPiecesOf(pathPattern[1])

\* C18: interpolatePathParams returns the one-element sequence ['/'] if and
\* only if the pattern is empty or absent; for a non-empty pattern whose
\* non-empty pieces are all optional placeholders without a value (or which
\* has none: separators only) it returns the empty sequence.
C18_RootOnlyForEmptyPattern ==
    interpolated # None =>
        /\ (interpolated[1].ok /\ interpolated[1].segments = <<<<SLASH>>>>) <=> EmptyPattern
        /\ (/\ ~EmptyPattern
            /\ \A i \in 1..Len(PiecesOfPattern) :
                   /\ IsPlaceholder(PiecesOfPattern[i])
                   /\ IsOptionalPiece(PiecesOfPattern[i])
                   /\ ~HasValue(routeParams, PlaceholderName(PiecesOfPattern[i])))
           => interpolated[1] = Returned(<<>>)

\* C18 witness: the pattern '/:a?' with a null gave the empty sequence.
C18_Witness ==
    /\ pathPattern = Some(<<SLASH, ":", "a", "?">>)
    /\ routeParams = Bag(Some(Null), None)
    /\ interpolated = Some(Returned(<<>>))

\* C19: for a non-empty pattern and a bag that has a value for every
\* required placeholder, interpolatePathParams returns, in pattern order, one
\* segment per non-empty piece that is a literal (the piece itself) or a
\* placeholder with a value (the encoded string form of the value), and none
\* for an optional placeholder without a value.
C19_SegmentsInPatternOrder ==
    (/\ interpolated # None
     /\ ~EmptyPattern
     /\ RequiredMissing(PiecesOfPattern, routeParams) = <<>>)
    => interpolated[1] = Returned(ExpectedSegments(PiecesOfPattern, routeParams))

\* C19 witness: for the pattern 'b/:a(d)?/:c' and a bag without a, the
\* optional placeholder between the literal and the placeholder with a value
\* added nothing and left the two other segments as they are.
C19_Witness ==
    /\ pathPattern = Some(<<"b", SLASH, ":", "a", "(", "d", ")", "?", SLASH, ":", "c">>)
    /\ routeParams = Bag(None, Some(Str(<<"y">>)))
    /\ interpolated = Some(Returned(<<<<"b">>, <<"y">>>>))

\* C20: interpolatePathParams throws if and only if some required
\* placeholder has no value (absent, undefined or null); the error lists the
\* names of all of them in pattern order, joined by ', ', names the route or
\* pattern it is about, and no segments are returned.
C20_MissingParametersError ==
    interpolated # None =>
        LET missing == RequiredMissing(PiecesOfPattern, routeParams)
        IN  /\ ~interpolated[1].ok <=> missing # <<>>
            /\ ~interpolated[1].ok =>
                   /\ interpolated[1].error[1].names = Join(missing, <<",", " ">>)
                   /\ interpolated[1].segments = <<>>
                   /\ interpolated[1].error[1].context # None


\* the pieces of a pattern when a separator inside a parenthesized constraint
\* belongs to the constraint: depth counts the parentheses that are open
RECURSIVE PlaceholdersFrom(_, _, _)
PlaceholdersFrom(s, piece, depth) ==
    IF s = <<>> THEN <<piece>>
    ELSE IF Head(s) = SLASH /\ depth = 0
    THEN <<piece>> \o PlaceholdersFrom(Tail(s), <<>>, 0)
    ELSE PlaceholdersFrom(Tail(s), Append(piece, Head(s)),
                          IF Head(s) = "(" THEN depth + 1
                          ELSE IF Head(s) = ")" /\ depth > 0 THEN depth - 1
                          ELSE depth)

PlaceholdersOfPattern ==
    IF EmptyPattern THEN <<>> ELSE NonEmptyOf(PlaceholdersFrom(pathPattern[1], <<>>, 0))

\* a placeholder with a parenthesized constraint suffix
HasConstraint(piece) == IsPlaceholder(piece) /\ \E i \in 1..Len(piece) : piece[i] = "("

\* C21: for a pattern with a constrained placeholder, whatever the constraint
\* contains, the bag is looked up under the identifier before the '(' and no
\* part of the constraint reaches the output: the call returns the literals
\* and the encoded values of the placeholders' identifiers, or throws naming
\* the identifiers of the required placeholders without a value
C21_ConstraintSuffixDiscarded ==
    (/\ interpolated # None
     /\ \E i \in 1..Len(PlaceholdersOfPattern) : HasConstraint(PlaceholdersOfPattern[i]))
    => LET missing == RequiredMissing(PlaceholdersOfPattern, routeParams)
       IN  IF missing = <<>>
           THEN interpolated[1] = Returned(ExpectedSegments(PlaceholdersOfPattern, routeParams))
           ELSE /\ ~interpolated[1].ok
                /\ interpolated[1].error[1].names = Join(missing, <<",", " ">>)


\* the step is a call of the NamedRouterService operation op
IsServiceCall(op) ==
    /\ ops' = ops + 1
    /\ completion' # None
    /\ completion'[1].op = op
    /\ completion'[1].at = ops'

\* the host calls a step adds
NewHostCalls == SubSeq(router', Len(router) + 1, Len(router'))

\* the bag an operation's extras carry
BagOf(extras) ==
    IF extras # None /\ extras[1].routeParams # None THEN extras[1].routeParams[1] ELSE <<>>

\* the call names no route, a route the registry does not have, or a route
\* one of whose required parameters the bag gives no value for
CannotNavigate(c) ==
    \/ c.routeName = <<>>
    \/ ~MapHas(routeMap, c.routeName)
    \/ RequiredMissing(PatternPiecesOf(MapGet(routeMap, c.routeName)[1]), BagOf(c.extras))
           # <<>>

\* C22: navigate and createUrlTree of NamedRouterService fail with an error
\* when the route name is empty, when the registry does not have the name,
\* or when a required parameter is missing, and then the host's
\* navigateByUrl is not invoked (nor the host's createUrlTree); when the
\* host's navigation is rejected, navigate fails with an error that names
\* the route
C22_NavigationErrors ==
    [][ /\ IsServiceCall("navigate") /\ CannotNavigate(completion'[1])
            => /\ completion'[1].state = "rejected"
               /\ completion'[1].error # None
               /\ NewHostCalls = <<>>
        /\ IsServiceCall("createUrlTree") /\ CannotNavigate(completion'[1])
            => /\ completion'[1].state = "threw"
               /\ completion'[1].error # None
               /\ NewHostCalls = <<>>
        /\ IsServiceCall("createUrlTree")
            => \A i \in 1..Len(NewHostCalls) : NewHostCalls[i].method # "navigateByUrl"
        /\ (/\ router' # router
            /\ router # <<>>
            /\ Len(router') = Len(router)
            /\ router'[Len(router)].state = "rejected")
            => /\ completion'[1].state = "rejected"
               /\ completion'[1].error[1].context = Some(completion'[1].routeName)
      ]_vars

\* navigate('a', {}) on the registry built from [{path: 'u/:c', name: 'a'}]
\* was rejected for the missing parameter c without any call to the host
C22_Witness ==
    /\ completion # None
    /\ completion[1].op = "navigate"
    /\ completion[1].state = "rejected"
    /\ completion[1].error[1].message # None
    /\ completion[1].error[1].message[1].kind = "Error"
    /\ completion[1].error[1].message[1].text = "Missing required route parameters"
    /\ router = <<>>


\* the step is an update of the directive: ngOnInit, or ngOnChanges with a
\* change of name, routeParams, queryParams or fragment
IsLinkUpdate ==
    /\ completion' # None
    /\ completion'[1].op = "updateHref"
    /\ completion' # completion \/ link'.inited # link.inited

\* the directive names no route, or a route the registry does not have, or
\* a route one of whose required parameters its bag gives no value for
LinkCannotResolve(this) ==
    \/ NoName(this)
    \/ ~MapHas(routeMap, this.name[1])
    \/ RequiredMissing(PatternPiecesOf(MapGet(routeMap, this.name[1])[1]), this.routeParams)
           # <<>>

\* the segments of the directive's route for its bag
LinkSegments(this) ==
    LET pattern == MapGet(routeMap, this.name[1])[1]
    IN  IF pattern = <<>> THEN <<<<SLASH>>>>
        ELSE ExpectedSegments(PatternPiecesOf(pattern), this.routeParams)

\* C23: after every update of the directive (ngOnInit, or a change of name,
\* routeParams, queryParams or fragment) href is null if the name is empty,
\* the registry does not have it, a required parameter is missing or the
\* host Router threw; otherwise href is what the host's serializeUrl gave
\* for the tree of the interpolated segments
C23_HrefAfterUpdate ==
    [][ IsLinkUpdate =>
            IF \/ LinkCannotResolve(link')
               \/ \E i \in 1..Len(NewHostCalls) : NewHostCalls[i].state = "threw"
            THEN link'.href = None
            ELSE /\ link'.href # None
                 /\ link'.href[1].url.segments = LinkSegments(link')
                 /\ NewHostCalls # <<>>
                 /\ NewHostCalls[Len(NewHostCalls)]
                        = HostCall("serializeUrl", link'.href[1].url, "returned")
      ]_vars

\* the directive showed a URL for route 'a' and, after its name changed to
\* one the registry does not have, shows none
C23_Witness ==
    /\ completion # None
    /\ completion[1].op = "updateHref"
    /\ link.name = Some(NameC)
    /\ link.href = None
    /\ \E i \in 1..Len(router) : router[i].method = "serializeUrl" /\ router[i].state = "returned"

\* the step is a click on the directive's element
IsClick ==
    /\ ops' = ops + 1
    /\ completion' # None
    /\ completion'[1].op = "onClick"
    /\ completion'[1].at = ops'

\* the navigateByUrl calls among the host calls a step adds
NewNavigations == SelectSeq(NewHostCalls, LAMBDA c : c.method = "navigateByUrl")

\* C24: a click is intercepted (default prevented, handler returns false)
\* exactly when the target is not '_blank', the button is the primary one
\* and none of ctrl, meta and shift is held; a click that is not intercepted
\* calls nothing of the host; an intercepted click invokes navigateByUrl at
\* most once, and only for a non-empty name the registry has and whose
\* required parameters all have values
C24_ClickInterception ==
    [][ IsClick =>
            LET c == completion'[1]
                intercept == /\ link.target # Some(<<"_", "b", "l", "a", "n", "k">>)
                             /\ c.event.button = 0
                             /\ ~c.event.ctrlKey
                             /\ ~c.event.metaKey
                             /\ ~c.event.shiftKey
            IN  /\ c.defaultPrevented <=> intercept
                /\ ~c.returned <=> intercept
                /\ ~intercept => NewHostCalls = <<>>
                /\ Len(NewNavigations) <= 1
                /\ Len(NewNavigations) = 1 => ~LinkCannotResolve(link)
                /\ link' = link
      ]_vars

\* a plain primary click on a link to a registered route navigated
C24_Witness ==
    /\ completion # None
    /\ completion[1].op = "onClick"
    /\ completion[1].defaultPrevented
    /\ ~completion[1].returned
    /\ router # <<>>
    /\ router[Len(router)].method = "navigateByUrl"


\* two consecutive '/' occur in the string
RepeatsSeparator(s) == \E k \in 1..(Len(s) - 1) : s[k] = SLASH /\ s[k + 1] = SLASH

\* C25: no path stored in the registry contains two consecutive '/': the
\* join of a parent prefix and a node path collapses repeated separators
\* (an empty child giving the parent, an empty parent giving the child)
C25_NoRepeatedSeparators ==
    \A i \in 1..Len(routeMap) : ~RepeatsSeparator(routeMap[i].path)


\* the value the only loader of the configuration resolves to
LoadedValue == config.items[1].loadChildren[1].loaded

\* the shapes of a loaded value: it is an array; it carries a default
\* array; it carries a routes array of its own; it is a module (a class, or
\* an object with a key containing 'mod') for which the host has routes
IsDirectSequence(v) == v.type = "array"
HasDefaultSequence(v) == v.type = "object" /\ v.default # None /\ IsArray(v.default[1])
HasRoutesSequence(v) ==
    v.type \in {"object", "function"} /\ v.routes # None /\ IsArray(v.routes[1])
HasHostRoutes(v) ==
    (v.type = "function" \/ (v.type = "object" /\ v.modKey)) /\ injectorRoutes # None

\* the path of name b in the subtree of the first shape, in the priority
\* order, that the value matches
PathByPriority(v) ==
    IF IsDirectSequence(v) THEN Some(<<"u", SLASH, "x">>)
    ELSE IF HasDefaultSequence(v) THEN Some(<<"u", SLASH, "v">>)
    ELSE IF HasRoutesSequence(v) THEN Some(<<"u", SLASH, "w">>)
    ELSE IF HasHostRoutes(v) THEN Some(<<"u", SLASH, "h">>)
    ELSE None

\* C26: the subtree a lazy node gets is the one of the first shape the
\* loaded value matches in the order direct array, default array, routes
\* array, host lookup: once the build has completed, name b has the path of
\* that subtree, so the routes a value carries are not overridden by the
\* host lookup
C26_NormalizationPriority ==
    (Len(builds) = 1 /\ builds[1].status = "fulfilled")
    => MapGet(routeMap, NameB) = PathByPriority(LoadedValue)


\* C27: getAllRouteNames returns every registered name exactly once; after
\* the completed build of a tree with unique names whose loaders deliver, it
\* returns the names in depth-first pre-order of the tree: input order among
\* siblings, a node before its subtree, a node's children before its lazily
\* loaded subtree
C27_NamesInRegistrationOrder ==
    LET names == getAllRouteNames(routeMap)
        entries == ExpectedEntries(config.items, <<>>)
    IN  /\ \A i, j \in 1..Len(names) : names[i] = names[j] => i = j
        /\ \A i \in 1..Len(names) : MapHas(routeMap, names[i])
        /\ Len(names) = Len(routeMap)
        /\ (/\ Len(builds) = 1
            /\ builds[1].status = "fulfilled"
            /\ LoadersDeliver(config.items)
            /\ UniqueNames(entries))
           => names = [i \in 1..Len(entries) |-> entries[i].name]

\* a completed build of a node with a child named 'a' and a lazily loaded
\* subtree whose node is named 'b': the names are listed as a, b
C27_Witness ==
    /\ Len(builds) = 1
    /\ builds[1].status = "fulfilled"
    /\ Len(config.items) = 1
    /\ config.items[1].children # None
    /\ config.items[1].loadChildren # None
    /\ config.items[1].children[1][1].name = Some(NameA)
    /\ Len(loaderLog) = 1
    /\ getAllRouteNames(routeMap) = <<NameA, NameB>>


\* an error has been thrown in build t and has not been caught: the build
\* is rejected, or the promise its top frame awaits is rejected
Failing(t) ==
    \/ builds[t].status = "rejected"
    \/ /\ builds[t].status = "pending"
       /\ builds[t].awaited # None
       /\ ~builds[t].awaited[1].ok

\* the loader invocations build t has made
InvocationsOf(log, t) == SelectSeq(log, LAMBDA e : e.build = t)

\* the duplicate-name error an error is, or whose message it embeds
RECURSIVE DuplicateIn(_)
DuplicateIn(e) ==
    IF e.kind = "DuplicateRouteNameError" THEN Some(e)
    ELSE IF e.cause = None THEN None
    ELSE DuplicateIn(e.cause[1])

\* the position of the first entry, in depth-first order, with the name
FirstWithName(entries, name) ==
    CHOOSE i \in 1..Len(entries) :
        entries[i].name = name /\ \A k \in 1..(i - 1) : entries[k].name # name

\* C28: once a duplicate name or a rejected loader has made a traversal
\* fail, that traversal stores no further name and invokes no further
\* loader; the duplicate-name error a failed build reports (as such, or
\* inside the error of the lazy node it was found under) names the path
\* that the first node of that name in depth-first order was stored with,
\* and the path of the first node that repeats a name
C28_StopsAtFirstFailure ==
    [][ \A t \in 1..Len(builds) :
          /\ Failing(t)
                => /\ builds'[t].registered = builds[t].registered
                   /\ Len(InvocationsOf(loaderLog', t)) = Len(InvocationsOf(loaderLog, t))
                   /\ routeMap' = routeMap
          /\ (/\ builds'[t].status = "rejected"
              /\ LoadersDeliver(config.items)
              /\ DuplicateIn(builds'[t].error[1]) # None)
                => LET d == DuplicateIn(builds'[t].error[1])[1]
                       entries == ExpectedEntries(config.items, <<>>)
                   IN  /\ d.existingPath = entries[FirstWithName(entries, d.name)].path
                       /\ d.newPath = entries[FirstDuplicate(entries)].path
                       /\ d.name = entries[FirstDuplicate(entries)].name
      ]_vars

\* a build was rejected for a duplicate name at its second node, with a
\* lazily loaded node still to come whose loader was never invoked
C28_Witness ==
    /\ Len(builds) = 1
    /\ builds[1].status = "rejected"
    /\ builds[1].error[1].kind = "DuplicateRouteNameError"
    /\ Len(config.items) = 2
    /\ config.items[2].loadChildren # None
    /\ loaderLog = <<>>
    /\ Len(routeMap) = 1


\* C29: the directive's interpolatePathParams and the service's agree: for
\* the same pattern and the same bag both return the same segments, or both
\* throw for the same missing names in the same order
C29_InterpolatorsAgree ==
    (interpolated # None /\ linkInterpolated # None /\ link.routeParams = routeParams)
    => /\ linkInterpolated[1].ok = interpolated[1].ok
       /\ linkInterpolated[1].segments = interpolated[1].segments
       /\ ~interpolated[1].ok
              => linkInterpolated[1].error[1].names = interpolated[1].error[1].names

\* both were called on 'b/:a(d)/:c' without values and threw for 'a, c'
C29_Witness ==
    /\ interpolated # None
    /\ linkInterpolated # None
    /\ pathPattern = Some(<<"b", SLASH, ":", "a", "(", "d", ")", SLASH, ":", "c">>)
    /\ ~interpolated[1].ok
    /\ ~linkInterpolated[1].ok
    /\ linkInterpolated[1].error[1].names = <<"a", ",", " ", "c">>


\* the step is a call of the query op
IsQuery(op) ==
    /\ ops' = ops + 1
    /\ completion' # None
    /\ completion'[1].op = op
    /\ completion'[1].at = ops'

\* the three queries agree on the name
QueriesAgree(name) ==
    LET names == getAllRouteNames(routeMap)
        listed == name # None /\ \E i \in 1..Len(names) : names[i] = name[1]
        found == getRoutePath(routeMap, isInitialized, name).path # None
    IN  /\ hasRoute(routeMap, name) <=> found
        /\ hasRoute(routeMap, name) <=> listed

\* C30: in every reachable state, also while a build is in flight and after
\* a failed build, hasRoute(n) is true exactly when getRoutePath(n) returns
\* a path and exactly when n is among getAllRouteNames(); a call of hasRoute
\* or getAllRouteNames returns that value, changes nothing of the registry
\* and emits no warning
C30_QueriesAgree ==
    /\ [](\A name \in LookupNames : QueriesAgree(name))
    /\ [][ /\ IsQuery("hasRoute")
                => /\ completion'[1].value = hasRoute(routeMap, completion'[1].name)
                   /\ UNCHANGED <<routeMap, isInitialized, initializationPromise, builds,
                                  calls, warnings, loaderLog>>
           /\ IsQuery("getAllRouteNames")
                => /\ completion'[1].value = getAllRouteNames(routeMap)
                   /\ UNCHANGED <<routeMap, isInitialized, initializationPromise, builds,
                                  calls, warnings, loaderLog>>
         ]_vars

\* hasRoute('a') returned true while the build that stored 'a' was waiting
\* for a loader, the service not yet marked initialized
C30_Witness ==
    /\ completion # None
    /\ completion[1].op = "hasRoute"
    /\ completion[1].name = Some(NameA)
    /\ completion[1].value = TRUE
    /\ ~isInitialized
    /\ \E t \in 1..Len(builds) : builds[t].status = "pending" /\ builds[t].awaited = None

====
